---- MODULE Spec2Model ----
(***************************************************************************)
(* A model of the AWS CodePipeline MCP server: the CallTool dispatcher of  *)
(* the stdio server with its twelve tool handlers, the handleTool method   *)
(* of the Express-based MCPServer, and the REST controller over the        *)
(* CodePipelineService.  One invocation is followed from the request to    *)
(* its outcome; every awaited remote call is one step whose outcome        *)
(* (a response or a failure) the environment chooses.                      *)
(*                                                                         *)
(* JavaScript objects are functions from property names to values; a       *)
(* property that is undefined is not in the domain.  Text assembled by     *)
(* template literals is a sequence of its pieces.                          *)
(***************************************************************************)
EXTENDS Integers, Sequences, FiniteSets, TLC

VARIABLES
  entry,     \* which entry point serves the invocation: "none", "mcp", "tool", "rest"
  request,   \* the request as the entry point received it
  pc,        \* position of the invocation: "idle", an await label, "done"
  local,     \* the handler's local variables that live across awaits
  calls,     \* the remote calls issued so far, in order, each with its outcome
  result,    \* what the entry point ended with
  sent,      \* HTTP responses written to res (REST controller)
  thrown,    \* what the handler threw, if it did: at most one error
  settled,   \* how the remote call awaited last settled: at most one outcome
  manager,   \* the CodePipelineManager the server constructed at start-up
  remote     \* the part of the remote service's state the invocation can change

vars == <<entry, request, pc, local, calls, result, sent, thrown, settled, manager, remote>>

-----------------------------------------------------------------------------
(* Bounds of the model *)

MaxTags == 2
MaxExec == 2

-----------------------------------------------------------------------------
(* JavaScript values *)

Undef == "undefined"
EmptyObj == [k \in {} |-> Undef]

\* o.k for a string-valued property: undefined when the property is missing
Get(o, k) == IF k \in DOMAIN o THEN o[k] ELSE Undef

\* a || b on string-or-undefined operands: undefined and '' are falsy
OrStr(a, b) == IF a = Undef \/ a = "" THEN b ELSE a

\* the property k: v of an object literal; JSON.stringify and the AWS SDK both
\* treat a property whose value is undefined as missing
Prop(k, v) == IF v = Undef THEN EmptyObj ELSE (k :> v)

\* Error.prototype.toString: "name: message", or the name alone without message
ErrToString(e) == IF e.message = <<>> THEN <<e.name>> ELSE <<e.name, ": ">> \o e.message

JsError(msg) == [name |-> "Error", message |-> msg]
TypeError(msg) == [name |-> "TypeError", message |-> msg]

\* s contains t as a contiguous piece
Contains(s, t) == \E i \in 1..(Len(s) - Len(t) + 1) : SubSeq(s, i, i + Len(t) - 1) = t

\* JSON.stringify(value, null, indent)
JSONstringify(value, indent) == [json |-> value, indent |-> indent]

\* An ISO-8601 string: the instant it denotes (milliseconds) and the way it is
\* written.  Date.prototype.toISOString always writes YYYY-MM-DDTHH:mm:ss.sssZ.
IsoString(ms, form) == [ms |-> ms, form |-> form]
toISOString(d) == IsoString(d, "YYYY-MM-DDTHH:mm:ss.sssZ")

-----------------------------------------------------------------------------
(* What a handler does between two awaits: it issues a remote call and     *)
(* waits, it returns, or it throws.                                        *)

Await(api, params, next, loc) == [t |-> "call", api |-> api, params |-> params, next |-> next, local |-> loc]
Return(value) == [t |-> "return", value |-> value]
Throw(error) == [t |-> "throw", error |-> error]

\* the tools' return value: one text block
TextContent(payload) == [content |-> <<[type |-> "text", text |-> JSONstringify(payload, 2)]>>]

\* outcomes of a remote call
Ok(data) == [ok |-> TRUE, data |-> data]
Failed(error) == [ok |-> FALSE, error |-> error]

RemoteErrors ==
  { [name |-> "ThrottlingException", message |-> <<"Rate exceeded">>],
    [name |-> "ValidationException", message |-> <<>>] }

Failures == { Failed(e) : e \in RemoteErrors }

Throttled == Failed([name |-> "ThrottlingException", message |-> <<"Rate exceeded">>])

-----------------------------------------------------------------------------
(* Remote responses, as the AWS SDK returns them.  Every member is optional *)
(* in the SDK's types, so the responses below leave members out.            *)

Now == 1000

Map(f(_), s) == [i \in 1..Len(s) |-> f(s[i])]

SummaryFull == [name |-> "p1", version |-> 3, created |-> 10, updated |-> 20]
SummaryBare == [name |-> "p2"]

ListPipelinesResponses ==
  { EmptyObj,
    [pipelines |-> <<>>],
    [pipelines |-> <<SummaryFull>>],
    [pipelines |-> <<SummaryFull, SummaryBare>>],
    [pipelines |-> <<SummaryBare, SummaryFull>>] }

ActionEarly == [actionName |-> "Fetch", latestExecution |-> [status |-> "Succeeded", lastStatusChange |-> 100000]]
ActionLate == [actionName |-> "Scan", latestExecution |-> [status |-> "Succeeded", lastStatusChange |-> 160000, token |-> "tok"]]
ActionIdle == [actionName |-> "Gate"]

StageSource ==
  [stageName |-> "Source",
   inboundTransitionState |-> [enabled |-> TRUE],
   latestExecution |-> [pipelineExecutionId |-> "e1", status |-> "Succeeded"],
   actionStates |-> <<ActionEarly, ActionLate>>]
StageBuild ==
  [stageName |-> "Build",
   latestExecution |-> [pipelineExecutionId |-> "e1", status |-> "Failed"],
   actionStates |-> <<ActionIdle>>]
StageBare == [stageName |-> "Deploy"]

GetPipelineStateResponses ==
  { EmptyObj,
    [pipelineName |-> "p1", pipelineVersion |-> 3, stageStates |-> <<>>, created |-> 10, updated |-> 20],
    [pipelineName |-> "p1", stageStates |-> <<StageSource, StageBuild>>],
    [pipelineName |-> "p1", stageStates |-> <<StageBare, StageSource>>] }

-----------------------------------------------------------------------------
(* list_pipelines *)

PipelineSummaryView(pipeline) ==
  [name |-> OrStr(Get(pipeline, "name"), ""),
   version |-> IF "version" \in DOMAIN pipeline THEN pipeline.version ELSE 0,
   created |-> IF "created" \in DOMAIN pipeline THEN toISOString(pipeline.created) ELSE "",
   updated |-> IF "updated" \in DOMAIN pipeline THEN toISOString(pipeline.updated) ELSE ""]

\* the payload without the default for a missing pipelines
listPipelinesPayloadSparse(response) ==
  IF "pipelines" \in DOMAIN response
  THEN [pipelines |-> Map(PipelineSummaryView, response.pipelines)] ELSE EmptyObj

listPipelinesPayload(response) ==
  [pipelines |-> IF "pipelines" \in DOMAIN response
                 THEN Map(PipelineSummaryView, response.pipelines) ELSE <<>>]

listPipelines ==
  Await("listPipelines", EmptyObj, "list_pipelines", EmptyObj)

listPipelinesResume(out) ==
  IF out.ok THEN Return(TextContent(listPipelinesPayload(out.data))) ELSE Throw(out.error)

-----------------------------------------------------------------------------
(* get_pipeline_state *)

TransitionStateView(t) ==
  ("enabled" :> (IF "enabled" \in DOMAIN t THEN t.enabled ELSE FALSE))
  @@ Prop("lastChangedBy", Get(t, "lastChangedBy"))
  @@ (IF "lastChangedAt" \in DOMAIN t THEN "lastChangedAt" :> toISOString(t.lastChangedAt) ELSE EmptyObj)
  @@ Prop("disabledReason", Get(t, "disabledReason"))

StageExecutionView(e) ==
  [pipelineExecutionId |-> OrStr(Get(e, "pipelineExecutionId"), ""),
   status |-> OrStr(Get(e, "status"), "")]

ErrorDetailsView(d) ==
  [code |-> OrStr(Get(d, "code"), ""), message |-> OrStr(Get(d, "message"), "")]

ActionExecutionView(e) ==
  ("status" :> OrStr(Get(e, "status"), ""))
  @@ Prop("summary", Get(e, "summary"))
  @@ ("lastStatusChange" :> toISOString(IF "lastStatusChange" \in DOMAIN e THEN e.lastStatusChange ELSE Now))
  @@ Prop("token", Get(e, "token"))
  @@ Prop("externalExecutionId", Get(e, "externalExecutionId"))
  @@ Prop("externalExecutionUrl", Get(e, "externalExecutionUrl"))
  @@ (IF "errorDetails" \in DOMAIN e THEN "errorDetails" :> ErrorDetailsView(e.errorDetails) ELSE EmptyObj)

ActionRevisionView(r) ==
  [revisionId |-> OrStr(Get(r, "revisionId"), ""),
   revisionChangeId |-> OrStr(Get(r, "revisionChangeId"), ""),
   created |-> toISOString(IF "created" \in DOMAIN r THEN r.created ELSE Now)]

ActionStateView(action) ==
  ("actionName" :> OrStr(Get(action, "actionName"), ""))
  @@ (IF "currentRevision" \in DOMAIN action
      THEN "currentRevision" :> ActionRevisionView(action.currentRevision) ELSE EmptyObj)
  @@ (IF "latestExecution" \in DOMAIN action
      THEN "latestExecution" :> ActionExecutionView(action.latestExecution) ELSE EmptyObj)
  @@ Prop("entityUrl", Get(action, "entityUrl"))

StageStateView(stage) ==
  ("stageName" :> OrStr(Get(stage, "stageName"), ""))
  @@ (IF "inboundTransitionState" \in DOMAIN stage
      THEN "inboundTransitionState" :> TransitionStateView(stage.inboundTransitionState) ELSE EmptyObj)
  @@ ("actionStates" :> (IF "actionStates" \in DOMAIN stage
                         THEN Map(ActionStateView, stage.actionStates) ELSE <<>>))
  @@ (IF "latestExecution" \in DOMAIN stage
      THEN "latestExecution" :> StageExecutionView(stage.latestExecution) ELSE EmptyObj)

\* the projection without the default for a missing stageStates
PipelineStateViewSparse(response) ==
  [pipelineName |-> OrStr(Get(response, "pipelineName"), ""),
   pipelineVersion |-> IF "pipelineVersion" \in DOMAIN response THEN response.pipelineVersion ELSE 0,
   created |-> IF "created" \in DOMAIN response THEN toISOString(response.created) ELSE "",
   updated |-> IF "updated" \in DOMAIN response THEN toISOString(response.updated) ELSE ""]
  @@ (IF "stageStates" \in DOMAIN response
      THEN "stageStates" :> Map(StageStateView, response.stageStates) ELSE EmptyObj)

PipelineStateView(response) ==
  [pipelineName |-> OrStr(Get(response, "pipelineName"), ""),
   pipelineVersion |-> IF "pipelineVersion" \in DOMAIN response THEN response.pipelineVersion ELSE 0,
   stageStates |-> IF "stageStates" \in DOMAIN response
                   THEN Map(StageStateView, response.stageStates) ELSE <<>>,
   created |-> IF "created" \in DOMAIN response THEN toISOString(response.created) ELSE "",
   updated |-> IF "updated" \in DOMAIN response THEN toISOString(response.updated) ELSE ""]

\* a handler that checks its required parameter before calling
getPipelineStateValidating(input) ==
  IF "pipelineName" \notin DOMAIN input
  THEN Throw(JsError(<<"pipelineName is required">>))
  ELSE Await("getPipelineState", Prop("name", input.pipelineName), "get_pipeline_state", EmptyObj)

getPipelineState(input) ==
  Await("getPipelineState", Prop("name", Get(input, "pipelineName")), "get_pipeline_state", EmptyObj)

getPipelineStateResume(out) ==
  IF out.ok THEN Return(TextContent([pipelineState |-> PipelineStateView(out.data)]))
  ELSE Throw(out.error)

-----------------------------------------------------------------------------
(* list_pipeline_executions *)

RevisionFull == [actionName |-> "Fetch", revisionId |-> "abc", revisionUrl |-> "http://r", revisionSummary |-> "fix"]

ExecSucceeded == [pipelineExecutionId |-> "e1", status |-> "Succeeded", startTime |-> 50, lastUpdateTime |-> 90, sourceRevisions |-> <<RevisionFull>>]
ExecFailed == [pipelineExecutionId |-> "e2", status |-> "Failed", startTime |-> 60]
ExecNoStart == [status |-> "Succeeded"]

ExecLater == [pipelineExecutionId |-> "e3", status |-> "Succeeded", startTime |-> 70]

ExecutionSummaries == { ExecSucceeded, ExecFailed, ExecNoStart, ExecLater }

SeqsUpTo(S, n) == UNION { [1..m -> S] : m \in 0..n }

ListPipelineExecutionsResponses ==
  { EmptyObj } \cup { [pipelineExecutionSummaries |-> l] : l \in SeqsUpTo(ExecutionSummaries, MaxExec) }

SourceRevisionView(revision) ==
  [name |-> OrStr(Get(revision, "actionName"), ""),
   revisionId |-> OrStr(Get(revision, "revisionId"), ""),
   revisionUrl |-> OrStr(Get(revision, "revisionUrl"), ""),
   revisionSummary |-> OrStr(Get(revision, "revisionSummary"), "")]

ExecutionView(execution) ==
  [pipelineExecutionId |-> OrStr(Get(execution, "pipelineExecutionId"), ""),
   status |-> OrStr(Get(execution, "status"), ""),
   startTime |-> IF "startTime" \in DOMAIN execution THEN toISOString(execution.startTime) ELSE "",
   lastUpdateTime |-> IF "lastUpdateTime" \in DOMAIN execution THEN toISOString(execution.lastUpdateTime) ELSE "",
   sourceRevisions |-> IF "sourceRevisions" \in DOMAIN execution
                       THEN Map(SourceRevisionView, execution.sourceRevisions) ELSE <<>>]

\* the payload listing the executions last to first
listPipelineExecutionsPayloadReversed(response) ==
  [executions |-> IF "pipelineExecutionSummaries" \in DOMAIN response
                  THEN [i \in 1..Len(response.pipelineExecutionSummaries) |->
                          ExecutionView(response.pipelineExecutionSummaries[
                            Len(response.pipelineExecutionSummaries) + 1 - i])]
                  ELSE <<>>]

listPipelineExecutionsPayload(response) ==
  [executions |-> IF "pipelineExecutionSummaries" \in DOMAIN response
                  THEN Map(ExecutionView, response.pipelineExecutionSummaries) ELSE <<>>]

listPipelineExecutions(input) ==
  Await("listPipelineExecutions", Prop("pipelineName", Get(input, "pipelineName")),
        "list_pipeline_executions", EmptyObj)

listPipelineExecutionsResume(out) ==
  IF out.ok THEN Return(TextContent(listPipelineExecutionsPayload(out.data))) ELSE Throw(out.error)

-----------------------------------------------------------------------------
(* get_pipeline_details *)

ActionDeclFull == [name |-> "Fetch", actionTypeId |-> "S3", runOrder |-> 1, region |-> "us-west-2", roleArn |-> "role"]
StageDeclFull == [name |-> "Source", actions |-> <<ActionDeclFull>>, blockers |-> <<>>]
StageDeclBare == [name |-> "Build"]

GetPipelineResponses ==
  { EmptyObj,
    [pipeline |-> [name |-> "p1", roleArn |-> "role", artifactStore |-> [type |-> "S3", location |-> "bucket"],
                   stages |-> <<StageDeclFull, StageDeclBare>>, version |-> 3],
     metadata |-> [pipelineArn |-> "arn:p1", created |-> 10, updated |-> 20]],
    [pipeline |-> [name |-> "p1"], metadata |-> [pipelineArn |-> "arn:other"]],
    [pipeline |-> [name |-> "p1"], metadata |-> [pipelineArn |-> ""]],
    [pipeline |-> [name |-> "p1"], metadata |-> [created |-> 10]] }

ActionDeclKeys == {"name", "actionTypeId", "runOrder", "configuration", "outputArtifacts", "inputArtifacts", "region", "namespace"}

ActionDeclView(action) == [k \in (DOMAIN action) \cap ActionDeclKeys |-> action[k]]

StageDeclView(stage) ==
  Prop("name", Get(stage, "name"))
  @@ (IF "actions" \in DOMAIN stage THEN "actions" :> Map(ActionDeclView, stage.actions) ELSE EmptyObj)

\* response.a?.b: the object b of a, or the empty object when a or b is missing,
\* for reading the optional members below it
Member(o, k) == IF k \in DOMAIN o THEN o[k] ELSE EmptyObj

getPipelineDetailsPayload(response) ==
  LET pipeline == Member(response, "pipeline")
      metadata == Member(response, "metadata")
  IN [pipeline |->
        ("name" :> OrStr(Get(pipeline, "name"), ""))
        @@ ("roleArn" :> OrStr(Get(pipeline, "roleArn"), ""))
        @@ (IF "artifactStore" \in DOMAIN pipeline THEN "artifactStore" :> pipeline.artifactStore ELSE EmptyObj)
        @@ (IF "stages" \in DOMAIN pipeline THEN "stages" :> Map(StageDeclView, pipeline.stages) ELSE EmptyObj)
        @@ ("version" :> (IF "version" \in DOMAIN pipeline THEN pipeline.version ELSE 0))
        @@ ("metadata" :>
              [created |-> IF "created" \in DOMAIN metadata THEN toISOString(metadata.created) ELSE "",
               updated |-> IF "updated" \in DOMAIN metadata THEN toISOString(metadata.updated) ELSE "",
               pipelineArn |-> OrStr(Get(metadata, "pipelineArn"), "")])]

getPipelineDetails(input) ==
  Await("getPipeline", Prop("name", Get(input, "pipelineName")), "get_pipeline_details", EmptyObj)

getPipelineDetailsResume(out) ==
  IF out.ok THEN Return(TextContent(getPipelineDetailsPayload(out.data))) ELSE Throw(out.error)

-----------------------------------------------------------------------------
(* get_pipeline_execution_logs *)

ArtifactFull == [name |-> "src", revisionId |-> "abc", revisionSummary |-> "fix", revisionUrl |-> "http://r", created |-> 10]

GetPipelineExecutionResponses ==
  { EmptyObj,
    [pipelineExecution |-> [pipelineName |-> "p1", pipelineVersion |-> 3, pipelineExecutionId |-> "e1",
                            status |-> "Succeeded", artifactRevisions |-> <<ArtifactFull>>]],
    [pipelineExecution |-> [pipelineExecutionId |-> "e1"]] }

ArtifactRevisionKeys == {"name", "revisionId", "revisionSummary", "revisionUrl"}

ArtifactRevisionView(revision) == [k \in (DOMAIN revision) \cap ArtifactRevisionKeys |-> revision[k]]

getPipelineExecutionLogsPayload(input, response) ==
  LET pe == Member(response, "pipelineExecution")
  IN [logs |->
        Prop("pipelineName", OrStr(Get(pe, "pipelineName"), Get(input, "pipelineName")))
        @@ ("pipelineVersion" :> (IF "pipelineVersion" \in DOMAIN pe /\ pe.pipelineVersion # 0
                                  THEN pe.pipelineVersion ELSE "1"))
        @@ ("pipelineExecution" :>
              (Prop("pipelineExecutionId", Get(pe, "pipelineExecutionId"))
               @@ Prop("status", Get(pe, "status"))
               @@ (IF "artifactRevisions" \in DOMAIN pe
                   THEN "artifactRevisions" :> Map(ArtifactRevisionView, pe.artifactRevisions)
                   ELSE EmptyObj)))]

getPipelineExecutionLogs(input) ==
  Await("getPipelineExecution",
        Prop("pipelineName", Get(input, "pipelineName")) @@ Prop("pipelineExecutionId", Get(input, "executionId")),
        "get_pipeline_execution_logs", EmptyObj)

getPipelineExecutionLogsResume(input, out) ==
  IF out.ok THEN Return(TextContent(getPipelineExecutionLogsPayload(input, out.data))) ELSE Throw(out.error)

-----------------------------------------------------------------------------
(* approve_action, retry_stage, trigger_pipeline, stop_pipeline_execution *)

\* a value of unknown type in an argument bag: {boolean: b} or {string: s}
Truthy(o, k) ==
  /\ k \in DOMAIN o
  /\ IF "boolean" \in DOMAIN o[k] THEN o[k].boolean ELSE o[k].string # ""

StrictlyTrue(o, k) == k \in DOMAIN o /\ "boolean" \in DOMAIN o[k] /\ o[k].boolean

approveActionParams(input) ==
  Prop("pipelineName", Get(input, "pipelineName"))
  @@ Prop("stageName", Get(input, "stageName"))
  @@ Prop("actionName", Get(input, "actionName"))
  @@ Prop("token", Get(input, "token"))
  @@ ("result" :> [status |-> IF Truthy(input, "approved") THEN "Approved" ELSE "Rejected",
                   summary |-> OrStr(Get(input, "comments"), "")])

approveActionMessage(input) ==
  <<"Action ", IF Truthy(input, "approved") THEN "approved" ELSE "rejected", " successfully">>

approveAction(input) ==
  Await("putApprovalResult", approveActionParams(input), "approve_action", EmptyObj)

\* a handler that reports success whatever the remote answered
approveActionResumeSwallowing(input, out) ==
  Return(TextContent([message |-> approveActionMessage(input)]))

approveActionResume(input, out) ==
  IF out.ok THEN Return(TextContent([message |-> approveActionMessage(input)])) ELSE Throw(out.error)

\* a retry that lets the input choose the retry mode
retryStageParamsFromInput(input) ==
  Prop("pipelineName", Get(input, "pipelineName"))
  @@ Prop("stageName", Get(input, "stageName"))
  @@ Prop("pipelineExecutionId", Get(input, "pipelineExecutionId"))
  @@ ("retryMode" :> OrStr(Get(input, "retryMode"), "FAILED_ACTIONS"))

retryStageParams(input) ==
  Prop("pipelineName", Get(input, "pipelineName"))
  @@ Prop("stageName", Get(input, "stageName"))
  @@ Prop("pipelineExecutionId", Get(input, "pipelineExecutionId"))
  @@ ("retryMode" :> "FAILED_ACTIONS")

retryStage(input) ==
  Await("retryStageExecution", retryStageParams(input), "retry_stage", EmptyObj)

retryStageResume(out) ==
  IF out.ok THEN Return(TextContent([message |-> "Stage retry initiated successfully"])) ELSE Throw(out.error)

StartPipelineExecutionResponses == { EmptyObj, [pipelineExecutionId |-> "e9"] }

triggerPipeline(input) ==
  Await("startPipelineExecution", Prop("name", Get(input, "pipelineName")), "trigger_pipeline", EmptyObj)

triggerPipelineResume(out) ==
  IF out.ok
  THEN Return(TextContent([message |-> "Pipeline triggered successfully",
                           executionId |-> OrStr(Get(out.data, "pipelineExecutionId"), "")]))
  ELSE Throw(out.error)

\* a stop that lets the input ask for abandon
stopPipelineExecutionParamsFromInput(input) ==
  Prop("pipelineName", Get(input, "pipelineName"))
  @@ Prop("pipelineExecutionId", Get(input, "executionId"))
  @@ ("reason" :> OrStr(Get(input, "reason"), "Stopped by user"))
  @@ ("abandon" :> ("abandon" \in DOMAIN input))

stopPipelineExecutionParams(input) ==
  Prop("pipelineName", Get(input, "pipelineName"))
  @@ Prop("pipelineExecutionId", Get(input, "executionId"))
  @@ ("reason" :> OrStr(Get(input, "reason"), "Stopped by user"))
  @@ ("abandon" :> FALSE)

stopPipelineExecution(input) ==
  Await("stopPipelineExecution", stopPipelineExecutionParams(input), "stop_pipeline_execution", EmptyObj)

stopPipelineExecutionResume(out) ==
  IF out.ok THEN Return(TextContent([message |-> "Pipeline execution stopped successfully"])) ELSE Throw(out.error)

-----------------------------------------------------------------------------
(* tag_pipeline_resource *)

\* a projection that swaps key and value
TagViewSwapped(tag) == Prop("key", Get(tag, "value")) @@ Prop("value", Get(tag, "key"))

TagView(tag) == Prop("key", Get(tag, "key")) @@ Prop("value", Get(tag, "value"))

tagPipelineResource(input) ==
  Await("getPipeline", Prop("name", Get(input, "pipelineName")), "tag_get_pipeline", EmptyObj)

\* the handler without its ARN check
tagPipelineResourceUnchecked(input, out) ==
  IF ~out.ok THEN Throw(out.error)
  ELSE LET resourceArn == Get(Member(out.data, "metadata"), "pipelineArn")
       IN IF "tags" \notin DOMAIN input
          THEN Throw(TypeError(<<"Cannot read properties of undefined (reading 'map')">>))
          ELSE Await("tagResource",
                     [resourceArn |-> resourceArn, tags |-> Map(TagView, input.tags)],
                     "tag_tag_resource",
                     [pipelineResponse |-> out.data, resourceArn |-> resourceArn])

\* after the details lookup: the ARN check, then the tagResource call
tagPipelineResourceLookedUp(input, out) ==
  IF ~out.ok THEN Throw(out.error)
  ELSE LET resourceArn == Get(Member(out.data, "metadata"), "pipelineArn")
       IN IF resourceArn = Undef \/ resourceArn = ""
          THEN Throw(JsError(<<"Could not find ARN for pipeline: ", Get(input, "pipelineName")>>))
          ELSE IF "tags" \notin DOMAIN input
          THEN Throw(TypeError(<<"Cannot read properties of undefined (reading 'map')">>))
          ELSE Await("tagResource",
                     [resourceArn |-> resourceArn, tags |-> Map(TagView, input.tags)],
                     "tag_tag_resource",
                     [pipelineResponse |-> out.data, resourceArn |-> resourceArn])

tagPipelineResourceTagged(input, loc, out) ==
  IF out.ok
  THEN Return(TextContent([message |-> "Pipeline resource tagged successfully",
                           resourceArn |-> loc.resourceArn,
                           tags |-> input.tags]))
  ELSE Throw(out.error)

-----------------------------------------------------------------------------
(* create_pipeline_webhook *)

PutWebhookResponses ==
  { EmptyObj,
    [webhook |-> [url |-> "https://hook", arn |-> "arn:hook"]],
    [webhook |-> [arn |-> "arn:hook"]] }

FilterView(filter) == Prop("jsonPath", Get(filter, "jsonPath")) @@ Prop("matchEquals", Get(filter, "matchEquals"))

putWebhookParams(input) ==
  [webhook |->
     Prop("name", Get(input, "webhookName"))
     @@ Prop("targetPipeline", Get(input, "pipelineName"))
     @@ Prop("targetAction", Get(input, "targetAction"))
     @@ ("filters" :> (IF "filters" \in DOMAIN input THEN Map(FilterView, input.filters) ELSE <<>>))
     @@ Prop("authentication", Get(input, "authentication"))
     @@ ("authenticationConfiguration" :> Member(input, "authenticationConfiguration"))]

webhookDetails(input, response) ==
  Prop("name", Get(input, "webhookName"))
  @@ (IF "webhook" \in DOMAIN response THEN "url" :> Get(response.webhook, "url") ELSE EmptyObj)
  @@ Prop("targetPipeline", Get(input, "pipelineName"))
  @@ Prop("targetAction", Get(input, "targetAction"))

createPipelineWebhook(input) ==
  Await("putWebhook", putWebhookParams(input), "webhook_put", EmptyObj)

\* the handler ending after putWebhook, without the register call
createPipelineWebhookPutOnly(input, out) ==
  IF out.ok
  THEN Return(TextContent([message |-> "Pipeline webhook created and registered successfully",
                           webhookDetails |-> webhookDetails(input, out.data)]))
  ELSE Throw(out.error)

\* after putWebhook: the register call
createPipelineWebhookPut(input, out) ==
  IF out.ok
  THEN Await("registerWebhookWithThirdParty", Prop("webhookName", Get(input, "webhookName")),
             "webhook_register", [response |-> out.data])
  ELSE Throw(out.error)

\* the handler deleting the webhook again when the register call fails
createPipelineWebhookCompensated(input, loc, out) ==
  IF out.ok
  THEN Return(TextContent([message |-> "Pipeline webhook created and registered successfully",
                           webhookDetails |-> webhookDetails(input, loc.response)]))
  ELSE Await("deleteWebhook", Prop("name", Get(input, "webhookName")), "webhook_register", loc)

createPipelineWebhookRegistered(input, loc, out) ==
  IF out.ok
  THEN Return(TextContent([message |-> "Pipeline webhook created and registered successfully",
                           webhookDetails |-> webhookDetails(input, loc.response)]))
  ELSE Throw(out.error)

-----------------------------------------------------------------------------
(* get_pipeline_metrics *)

DefaultPeriod == 86400
WeekMs == 604800000
MaxResults == 20

\* new Date(string): the instant of a well-formed ISO string, Invalid Date otherwise
InvalidDate == [valid |-> FALSE]
DateOf(ms) == [valid |-> TRUE, ms |-> ms]
NewDate(s) == IF "ms" \in DOMAIN s THEN DateOf(s.ms) ELSE InvalidDate

\* new Date(d.getTime() - n): NaN stays NaN
DateMinus(d, n) == IF d.valid THEN DateOf(d.ms - n) ELSE InvalidDate

CountSeries ==
  { EmptyObj,
    [Datapoints |-> <<>>],
    [Datapoints |-> <<[Sum |-> 1, Timestamp |-> 5], [Timestamp |-> 6]>>],
    [Datapoints |-> <<[Sum |-> 0, Timestamp |-> 7], [Timestamp |-> 8]>>] }

TimeSeries ==
  { EmptyObj,
    [Datapoints |-> <<>>],
    [Datapoints |-> <<[Timestamp |-> 5, Average |-> 40, Minimum |-> 10, Maximum |-> 90],
                      [Average |-> 25, Minimum |-> 5, Maximum |-> 30]>>],
    [Datapoints |-> <<[Timestamp |-> 5]>>] }

RECURSIVE SumOver(_, _, _)
\* points.reduce((sum, point) => sum + (point[k] || 0), 0)
SumOver(points, k, i) ==
  IF i > Len(points) THEN 0
  ELSE (IF k \in DOMAIN points[i] THEN points[i][k] ELSE 0) + SumOver(points, k, i + 1)

\* series.Datapoints?.reduce(...) || 0
TotalOf(series) == IF "Datapoints" \in DOMAIN series THEN SumOver(series.Datapoints, "Sum", 1) ELSE 0

MinOfSet(S) == CHOOSE m \in S : \A n \in S : m <= n
MaxOfSet(S) == CHOOSE m \in S : \A n \in S : m >= n

\* the value of statistic k in every datapoint, 0 where it is missing
StatValues(points, k) == { IF k \in DOMAIN points[i] THEN points[i][k] ELSE 0 : i \in 1..Len(points) }

\* the rate computed without the guard on the total: 0 / 0 is NaN
ToFixed2PercentUnguarded(n, d) ==
  IF d = 0 THEN "NaN%"
  ELSE LET h == (n * 20000 + d) \div (2 * d)
       IN ToString(h \div 100) \o "." \o ToString((h % 100) \div 10) \o ToString(h % 10) \o "%"

\* (n / d * 100).toFixed(2) + '%', rounding half up
ToFixed2Percent(n, d) ==
  LET h == IF d > 0 THEN (n * 20000 + d) \div (2 * d) ELSE 0
  IN ToString(h \div 100) \o "." \o ToString((h % 100) \div 10) \o ToString(h % 10) \o "%"

metricStatisticsParams(metricName, statistics, loc) ==
  [Namespace |-> "AWS/CodePipeline",
   MetricName |-> metricName,
   Dimensions |-> <<("Name" :> "PipelineName") @@ Prop("Value", loc.pipelineName)>>,
   StartTime |-> loc.startTime,
   EndTime |-> loc.endTime,
   Period |-> loc.period,
   Statistics |-> statistics]

\* a default start counted back from the current time
getPipelineMetricsFromNow(input) ==
  LET endTime == IF "endTime" \in DOMAIN input THEN NewDate(input.endTime) ELSE DateOf(Now)
      startTime == IF "startTime" \in DOMAIN input THEN NewDate(input.startTime)
                   ELSE DateMinus(DateOf(Now), WeekMs)
      loc == [pipelineName |-> Get(input, "pipelineName"),
              period |-> IF "period" \in DOMAIN input THEN input.period ELSE DefaultPeriod,
              startTime |-> startTime,
              endTime |-> endTime]
  IN Await("getMetricStatistics",
           metricStatisticsParams("SucceededPipeline", <<"Sum", "Average", "Maximum">>, loc),
           "metrics_succeeded", loc)

getPipelineMetrics(input) ==
  LET endTime == IF "endTime" \in DOMAIN input THEN NewDate(input.endTime) ELSE DateOf(Now)
      startTime == IF "startTime" \in DOMAIN input THEN NewDate(input.startTime)
                   ELSE DateMinus(endTime, WeekMs)
      loc == [pipelineName |-> Get(input, "pipelineName"),
              period |-> IF "period" \in DOMAIN input THEN input.period ELSE DefaultPeriod,
              startTime |-> startTime,
              endTime |-> endTime]
  IN Await("getMetricStatistics",
           metricStatisticsParams("SucceededPipeline", <<"Sum", "Average", "Maximum">>, loc),
           "metrics_succeeded", loc)

getPipelineMetricsSucceeded(loc, out) ==
  IF out.ok
  THEN Await("getMetricStatistics",
             metricStatisticsParams("FailedPipeline", <<"Sum", "Average", "Maximum">>, loc),
             "metrics_failed", loc @@ [totalSuccessful |-> TotalOf(out.data)])
  ELSE Throw(out.error)

getPipelineMetricsFailed(loc, out) ==
  IF out.ok
  THEN Await("getMetricStatistics",
             metricStatisticsParams("PipelineExecutionTime", <<"Average", "Minimum", "Maximum">>, loc),
             "metrics_time", loc @@ [totalFailed |-> TotalOf(out.data)])
  ELSE Throw(out.error)

getPipelineMetricsTime(loc, out) ==
  IF out.ok
  THEN Await("listPipelineExecutions",
             Prop("pipelineName", loc.pipelineName) @@ ("maxResults" :> MaxResults),
             "metrics_list", loc @@ [executionTimeMetric |-> out.data])
  ELSE Throw(out.error)

\* the lastStatusChange of every action of the stage that carries one
ActionTimes(stage) ==
  { stage.actionStates[i].latestExecution.lastStatusChange :
      i \in { j \in 1..Len(stage.actionStates) :
                /\ "latestExecution" \in DOMAIN stage.actionStates[j]
                /\ "lastStatusChange" \in DOMAIN stage.actionStates[j].latestExecution } }

\* the stage is timed: it succeeded, is named, and an action carries a timestamp
StageTimed(stage) ==
  /\ "latestExecution" \in DOMAIN stage
  /\ Get(stage.latestExecution, "status") = "Succeeded"
  /\ OrStr(Get(stage, "stageName"), "") # ""
  /\ "actionStates" \in DOMAIN stage
  /\ Len(stage.actionStates) > 0
  /\ ActionTimes(stage) # {}

\* (latestTime.getTime() - earliestTime.getTime()) / 1000
StageDuration(stage) == (MaxOfSet(ActionTimes(stage)) - MinOfSet(ActionTimes(stage))) \div 1000

\* an accumulator that opens a new entry every time
AddStageMetricAppending(stageMetrics, stageName, duration) ==
  Append(stageMetrics, [stageName |-> stageName, count |-> 1, totalDuration |-> duration])

\* stageMetrics[stageName].count += 1; .totalDuration += duration, the entries
\* kept in insertion order (the order Object.entries lists them)
AddStageMetric(stageMetrics, stageName, duration) ==
  IF \E i \in 1..Len(stageMetrics) : stageMetrics[i].stageName = stageName
  THEN [i \in 1..Len(stageMetrics) |->
          IF stageMetrics[i].stageName = stageName
          THEN [stageMetrics[i] EXCEPT !.count = @ + 1, !.totalDuration = @ + duration]
          ELSE stageMetrics[i]]
  ELSE Append(stageMetrics, [stageName |-> stageName, count |-> 1, totalDuration |-> duration])

RECURSIVE AccumulateStages(_, _, _)
AccumulateStages(stageMetrics, stages, i) ==
  IF i > Len(stages) THEN stageMetrics
  ELSE AccumulateStages(
         IF StageTimed(stages[i])
         THEN AddStageMetric(stageMetrics, stages[i].stageName, StageDuration(stages[i]))
         ELSE stageMetrics,
         stages, i + 1)

StageDurationView(m) ==
  [stageName |-> m.stageName,
   averageDuration |-> IF m.count > 0 THEN [num |-> m.totalDuration, den |-> m.count] ELSE [num |-> 0, den |-> 1],
   executionCount |-> m.count]

\* a JavaScript number: a finite value, or Infinity / -Infinity (which
\* JSON.stringify writes as null), told apart by the sign kept in value
Finite(n) == [finite |-> TRUE, value |-> n]
PosInfinity == [finite |-> FALSE, value |-> 1]
NegInfinity == [finite |-> FALSE, value |-> -1]

ExecutionTimePointView(point) ==
  (IF "Timestamp" \in DOMAIN point THEN "timestamp" :> toISOString(point.Timestamp) ELSE EmptyObj)
  @@ (IF "Average" \in DOMAIN point THEN "average" :> point.Average ELSE EmptyObj)
  @@ (IF "Minimum" \in DOMAIN point THEN "minimum" :> point.Minimum ELSE EmptyObj)
  @@ (IF "Maximum" \in DOMAIN point THEN "maximum" :> point.Maximum ELSE EmptyObj)

executionTimeView(series) ==
  LET has == "Datapoints" \in DOMAIN series
      points == IF has THEN series.Datapoints ELSE <<>>
  IN [average |-> IF Len(points) > 0
                  THEN [num |-> SumOver(points, "Average", 1), den |-> Len(points)]
                  ELSE [num |-> 0, den |-> 1],
      minimum |-> IF ~has THEN Finite(0)
                  ELSE IF points = <<>> THEN PosInfinity ELSE Finite(MinOfSet(StatValues(points, "Minimum"))),
      maximum |-> IF ~has THEN Finite(0)
                  ELSE IF points = <<>> THEN NegInfinity ELSE Finite(MaxOfSet(StatValues(points, "Maximum"))),
      dataPoints |-> Map(ExecutionTimePointView, points)]

metricsPayload(loc) ==
  Prop("pipelineName", loc.pipelineName)
  @@ [timeRange |-> [startTime |-> toISOString(loc.startTime.ms),
                     endTime |-> toISOString(loc.endTime.ms),
                     periodSeconds |-> loc.period],
      executionStats |-> [totalExecutions |-> loc.totalSuccessful + loc.totalFailed,
                          successfulExecutions |-> loc.totalSuccessful,
                          failedExecutions |-> loc.totalFailed,
                          successRate |-> ToFixed2Percent(loc.totalSuccessful,
                                                          loc.totalSuccessful + loc.totalFailed)],
      executionTime |-> executionTimeView(loc.executionTimeMetric),
      stagePerformance |-> Map(StageDurationView, loc.stageMetrics)]

\* after the loop: toISOString throws on an Invalid Date
getPipelineMetricsFinish(loc) ==
  IF ~loc.startTime.valid \/ ~loc.endTime.valid
  THEN Throw([name |-> "RangeError", message |-> <<"Invalid time value">>])
  ELSE Return(TextContent(metricsPayload(loc)))

RECURSIVE getPipelineMetricsLoop(_, _)
\* the for loop from execution i on, up to its next await or its end
getPipelineMetricsLoop(loc, i) ==
  IF i > Len(loc.executions) THEN getPipelineMetricsFinish(loc)
  ELSE IF "startTime" \in DOMAIN loc.executions[i] /\ Get(loc.executions[i], "status") = "Succeeded"
       THEN Await("getPipelineExecution",
                  Prop("pipelineName", loc.pipelineName)
                  @@ ("pipelineExecutionId" :> OrStr(Get(loc.executions[i], "pipelineExecutionId"), "")),
                  "metrics_execution", [loc EXCEPT !.i = i])
       ELSE getPipelineMetricsLoop(loc, i + 1)

getPipelineMetricsListed(loc, out) ==
  IF out.ok
  THEN getPipelineMetricsLoop(
         loc @@ [executions |-> IF "pipelineExecutionSummaries" \in DOMAIN out.data
                                THEN out.data.pipelineExecutionSummaries ELSE <<>>,
                 i |-> 1,
                 stageMetrics |-> <<>>], 1)
  ELSE Throw(out.error)

\* the loop skipping an execution whose lookup failed
getPipelineMetricsExecutionSkipping(loc, out) ==
  IF out.ok
  THEN Await("getPipelineState", Prop("name", loc.pipelineName), "metrics_state", loc)
  ELSE getPipelineMetricsLoop(loc, loc.i + 1)

getPipelineMetricsExecution(loc, out) ==
  IF out.ok
  THEN Await("getPipelineState", Prop("name", loc.pipelineName), "metrics_state", loc)
  ELSE Throw(out.error)

\* the stages of the snapshot that ran for the given execution
StagesOfExecution(stages, id) ==
  SelectSeq(stages, LAMBDA stage : /\ "latestExecution" \in DOMAIN stage
                                   /\ Get(stage.latestExecution, "pipelineExecutionId") = id)

\* the loop timing only the stages that ran for the iterated execution
getPipelineMetricsStateOfExecution(loc, out) ==
  IF out.ok
  THEN getPipelineMetricsLoop(
         [loc EXCEPT !.stageMetrics =
            AccumulateStages(@, StagesOfExecution(
                                  IF "stageStates" \in DOMAIN out.data THEN out.data.stageStates ELSE <<>>,
                                  OrStr(Get(loc.executions[loc.i], "pipelineExecutionId"), "")), 1)],
         loc.i + 1)
  ELSE Throw(out.error)

\* the loop passing over the execution after the one just examined
getPipelineMetricsStateSkipping(loc, out) ==
  IF out.ok
  THEN getPipelineMetricsLoop(
         [loc EXCEPT !.stageMetrics =
            AccumulateStages(@, IF "stageStates" \in DOMAIN out.data THEN out.data.stageStates ELSE <<>>, 1)],
         loc.i + 2)
  ELSE Throw(out.error)

getPipelineMetricsState(loc, out) ==
  IF out.ok
  THEN getPipelineMetricsLoop(
         [loc EXCEPT !.stageMetrics =
            AccumulateStages(@, IF "stageStates" \in DOMAIN out.data THEN out.data.stageStates ELSE <<>>, 1)],
         loc.i + 1)
  ELSE Throw(out.error)

-----------------------------------------------------------------------------
(* The CallTool request handler of the stdio server *)

ToolNames ==
  { "list_pipelines", "get_pipeline_state", "list_pipeline_executions", "approve_action",
    "retry_stage", "trigger_pipeline", "get_pipeline_execution_logs", "stop_pipeline_execution",
    "get_pipeline_details", "tag_pipeline_resource", "create_pipeline_webhook", "get_pipeline_metrics" }

\* a tool list that advertises one schema twice and leaves one out
ListToolsResultDuplicated ==
  [tools |-> << [name |-> "list_pipelines"], [name |-> "get_pipeline_state"],
                [name |-> "list_pipeline_executions"], [name |-> "approve_action"],
                [name |-> "retry_stage"], [name |-> "trigger_pipeline"],
                [name |-> "get_pipeline_execution_logs"], [name |-> "stop_pipeline_execution"],
                [name |-> "get_pipeline_details"], [name |-> "tag_pipeline_resource"],
                [name |-> "create_pipeline_webhook"], [name |-> "get_pipeline_details"] >>]

\* { tools: [listPipelinesSchema, ..., getPipelineMetricsSchema] }: each schema
\* by the name it declares
ListToolsResult ==
  [tools |-> << [name |-> "list_pipelines"], [name |-> "get_pipeline_state"],
                [name |-> "list_pipeline_executions"], [name |-> "approve_action"],
                [name |-> "retry_stage"], [name |-> "trigger_pipeline"],
                [name |-> "get_pipeline_execution_logs"], [name |-> "stop_pipeline_execution"],
                [name |-> "get_pipeline_details"], [name |-> "tag_pipeline_resource"],
                [name |-> "create_pipeline_webhook"], [name |-> "get_pipeline_metrics"] >>]

\* new McpError(code, message)
McpError(code, message) ==
  [name |-> "McpError", code |-> code, message |-> <<"MCP error ", code, ": ">> \o message]

\* const { name, arguments: input = {} } = request.params
InputOf(params) == IF "arguments" \in DOMAIN params THEN params.arguments ELSE EmptyObj

\* the switch on the tool name, up to the handler's first await
CallToolSwitch(name, input) ==
  CASE name = "list_pipelines" -> listPipelines
    [] name = "get_pipeline_state" -> getPipelineState(input)
    [] name = "list_pipeline_executions" -> listPipelineExecutions(input)
    [] name = "approve_action" -> approveAction(input)
    [] name = "retry_stage" -> retryStage(input)
    [] name = "trigger_pipeline" -> triggerPipeline(input)
    [] name = "get_pipeline_execution_logs" -> getPipelineExecutionLogs(input)
    [] name = "stop_pipeline_execution" -> stopPipelineExecution(input)
    [] name = "get_pipeline_details" -> getPipelineDetails(input)
    [] name = "tag_pipeline_resource" -> tagPipelineResource(input)
    [] name = "create_pipeline_webhook" -> createPipelineWebhook(input)
    [] name = "get_pipeline_metrics" -> getPipelineMetrics(input)
    [] OTHER -> Throw(McpError("InvalidRequest", <<"Unknown tool: ", name>>))

\* a catch that rethrows what it caught
CallToolCatchRethrow(error) == error

\* a catch that wraps whatever it caught
CallToolCatchWrapAll(error) ==
  McpError("InternalError", <<"Tool execution failed: ">> \o ErrToString(error))

\* catch (error): an McpError passes, anything else is wrapped
CallToolCatch(error) ==
  IF error.name = "McpError" THEN error
  ELSE McpError("InternalError", <<"Tool execution failed: ">> \o ErrToString(error))

\* how the request handler's promise settles when the tool handler ends
CallToolEnd(step) ==
  CASE step.t = "return" -> [kind |-> "resolved", value |-> step.value]
    [] step.t = "throw" -> [kind |-> "rejected", error |-> CallToolCatch(step.error)]
    [] OTHER -> [kind |-> "none"]

-----------------------------------------------------------------------------
(* CodePipelineService: each method awaits one remote call; its catch logs  *)
(* and rethrows the same error.                                             *)

ArtifactOfSourceRevision(revision) ==
  [name |-> OrStr(Get(revision, "actionName"), ""),
   revisionId |-> OrStr(Get(revision, "revisionId"), ""),
   revisionChangeIdentifier |-> OrStr(Get(revision, "revisionUrl"), ""),
   revisionSummary |-> OrStr(Get(revision, "revisionSummary"), ""),
   created |-> toISOString(Now),
   revisionUrl |-> OrStr(Get(revision, "revisionUrl"), "")]

ServiceExecutionView(execution) ==
  [pipelineExecutionId |-> OrStr(Get(execution, "pipelineExecutionId"), ""),
   status |-> OrStr(Get(execution, "status"), ""),
   artifactRevisions |-> IF "sourceRevisions" \in DOMAIN execution
                         THEN Map(ArtifactOfSourceRevision, execution.sourceRevisions) ELSE <<>>]

ServiceListPipelineExecutions(response) ==
  IF "pipelineExecutionSummaries" \in DOMAIN response
  THEN Map(ServiceExecutionView, response.pipelineExecutionSummaries) ELSE <<>>

\* approveAction(request, approved, comments = '')
ServiceApproveActionParams(approvalRequest, approved, comments) ==
  Prop("pipelineName", Get(approvalRequest, "pipelineName"))
  @@ Prop("stageName", Get(approvalRequest, "stageName"))
  @@ Prop("actionName", Get(approvalRequest, "actionName"))
  @@ Prop("token", Get(approvalRequest, "token"))
  @@ ("result" :> [status |-> IF approved THEN "Approved" ELSE "Rejected",
                   summary |-> IF comments = Undef THEN "" ELSE comments])

ServiceRetryStageParams(retryRequest) ==
  Prop("pipelineName", Get(retryRequest, "pipelineName"))
  @@ Prop("stageName", Get(retryRequest, "stageName"))
  @@ Prop("pipelineExecutionId", Get(retryRequest, "pipelineExecutionId"))
  @@ ("retryMode" :> "FAILED_ACTIONS")

\* stopPipelineExecution(pipelineName, executionId, reason = 'Stopped by user'):
\* the default stands in only for an undefined reason
ServiceStopParams(pipelineName, executionId, reason) ==
  Prop("pipelineName", pipelineName)
  @@ Prop("pipelineExecutionId", executionId)
  @@ ("reason" :> (IF reason = Undef THEN "Stopped by user" ELSE reason))
  @@ ("abandon" :> FALSE)

-----------------------------------------------------------------------------
(* CodePipelineController: Express handlers (req, res).  req is a request   *)
(* with params and body when Express calls the handler; handleTool passes   *)
(* its own arguments in their place, a string or undefined.                 *)

Request(params, body) == [kind |-> "request", params |-> params, body |-> body]
ArgOf(v) == [kind |-> IF v = Undef THEN "undefined" ELSE "string"]

Falsy(v) == v = Undef \/ v = ""

\* reading a member of req.params or req.body when req is no request
ReqTypeError(req) ==
  TypeError(IF req.kind = "undefined"
            THEN <<"Cannot read properties of undefined (reading 'params')">>
            ELSE <<"Cannot destructure property of undefined">>)

ResTypeError(resKind) ==
  TypeError(IF resKind = "undefined"
            THEN <<"Cannot read properties of undefined (reading 'status')">>
            ELSE <<"res.status is not a function">>)

\* res.status(code).json(body)
Respond(resKind, code, body) ==
  IF resKind = "response"
  THEN [t |-> "return", value |-> Undef, res |-> <<[status |-> code, body |-> body]>>]
  ELSE Throw(ResTypeError(resKind))

\* a handler without its catch
ControllerTryUncaught(step, resKind, message) == step

\* try { step } catch (error) { res.status(500).json({ error: message }) }
ControllerTry(step, resKind, message) ==
  IF step.t = "throw" THEN Respond(resKind, 500, [error |-> message]) ELSE step

ControllerListPipelines(req, resKind) ==
  Await("listPipelines", EmptyObj, "ctl_listPipelines", [req |-> req, res |-> resKind])

ControllerListPipelinesResume(loc, out) ==
  ControllerTry(IF out.ok THEN Respond(loc.res, 200, listPipelinesPayload(out.data)) ELSE Throw(out.error),
                loc.res, "Failed to list pipelines")

ControllerGetPipelineState(req, resKind) ==
  ControllerTry(
    IF req.kind # "request" THEN Throw(ReqTypeError(req))
    ELSE IF Falsy(Get(req.params, "pipelineName"))
    THEN Respond(resKind, 400, [error |-> "Pipeline name is required"])
    ELSE Await("getPipelineState", [name |-> req.params.pipelineName],
               "ctl_getPipelineState", [req |-> req, res |-> resKind]),
    resKind, "Failed to get pipeline state")

ControllerGetPipelineStateResume(loc, out) ==
  ControllerTry(IF out.ok THEN Respond(loc.res, 200, [pipelineState |-> PipelineStateView(out.data)])
                ELSE Throw(out.error),
                loc.res, "Failed to get pipeline state")

ControllerListPipelineExecutions(req, resKind) ==
  ControllerTry(
    IF req.kind # "request" THEN Throw(ReqTypeError(req))
    ELSE IF Falsy(Get(req.params, "pipelineName"))
    THEN Respond(resKind, 400, [error |-> "Pipeline name is required"])
    ELSE Await("listPipelineExecutions", [pipelineName |-> req.params.pipelineName],
               "ctl_listPipelineExecutions", [req |-> req, res |-> resKind]),
    resKind, "Failed to list pipeline executions")

ControllerListPipelineExecutionsResume(loc, out) ==
  ControllerTry(IF out.ok THEN Respond(loc.res, 200, [executions |-> ServiceListPipelineExecutions(out.data)])
                ELSE Throw(out.error),
                loc.res, "Failed to list pipeline executions")

ControllerApproveAction(req, resKind) ==
  ControllerTry(
    IF req.kind # "request" THEN Throw(ReqTypeError(req))
    ELSE IF \/ Falsy(Get(req.body, "pipelineName")) \/ Falsy(Get(req.body, "stageName"))
            \/ Falsy(Get(req.body, "actionName")) \/ Falsy(Get(req.body, "token"))
    THEN Respond(resKind, 400, [error |-> "Missing required approval parameters"])
    ELSE Await("putApprovalResult",
               ServiceApproveActionParams(req.body, StrictlyTrue(req.body, "approved"),
                                          OrStr(Get(req.body, "comments"), "")),
               "ctl_approveAction", [req |-> req, res |-> resKind]),
    resKind, "Failed to process approval")

ControllerApproveActionResume(loc, out) ==
  ControllerTry(
    IF out.ok
    THEN Respond(loc.res, 200,
                 [message |-> <<"Action ", IF Truthy(loc.req.body, "approved") THEN "approved" ELSE "rejected",
                                " successfully">>])
    ELSE Throw(out.error),
    loc.res, "Failed to process approval")

ControllerRetryStage(req, resKind) ==
  ControllerTry(
    IF req.kind # "request" THEN Throw(ReqTypeError(req))
    ELSE IF \/ Falsy(Get(req.body, "pipelineName")) \/ Falsy(Get(req.body, "stageName"))
            \/ Falsy(Get(req.body, "pipelineExecutionId"))
    THEN Respond(resKind, 400, [error |-> "Missing required retry parameters"])
    ELSE Await("retryStageExecution", ServiceRetryStageParams(req.body),
               "ctl_retryStage", [req |-> req, res |-> resKind]),
    resKind, "Failed to retry stage")

ControllerRetryStageResume(loc, out) ==
  ControllerTry(IF out.ok THEN Respond(loc.res, 200, [message |-> "Stage retry initiated successfully"])
                ELSE Throw(out.error),
                loc.res, "Failed to retry stage")

ControllerTriggerPipeline(req, resKind) ==
  ControllerTry(
    IF req.kind # "request" THEN Throw(ReqTypeError(req))
    ELSE IF Falsy(Get(req.body, "pipelineName"))
    THEN Respond(resKind, 400, [error |-> "Pipeline name is required"])
    ELSE Await("startPipelineExecution", [name |-> req.body.pipelineName],
               "ctl_triggerPipeline", [req |-> req, res |-> resKind]),
    resKind, "Failed to trigger pipeline")

ControllerTriggerPipelineResume(loc, out) ==
  ControllerTry(
    IF out.ok
    THEN Respond(loc.res, 200, [message |-> "Pipeline triggered successfully",
                                executionId |-> OrStr(Get(out.data, "pipelineExecutionId"), "")])
    ELSE Throw(out.error),
    loc.res, "Failed to trigger pipeline")

ControllerGetPipelineExecutionLogs(req, resKind) ==
  ControllerTry(
    IF req.kind # "request" THEN Throw(ReqTypeError(req))
    ELSE IF Falsy(Get(req.params, "pipelineName")) \/ Falsy(Get(req.params, "executionId"))
    THEN Respond(resKind, 400, [error |-> "Pipeline name and execution ID are required"])
    ELSE Await("getPipelineExecution",
               [pipelineName |-> req.params.pipelineName, pipelineExecutionId |-> req.params.executionId],
               "ctl_getPipelineExecutionLogs", [req |-> req, res |-> resKind]),
    resKind, "Failed to get pipeline execution logs")

ControllerGetPipelineExecutionLogsResume(loc, out) ==
  ControllerTry(IF out.ok THEN Respond(loc.res, 200, [logs |-> out.data]) ELSE Throw(out.error),
                loc.res, "Failed to get pipeline execution logs")

ControllerStopPipelineExecution(req, resKind) ==
  ControllerTry(
    IF req.kind # "request" THEN Throw(ReqTypeError(req))
    ELSE IF Falsy(Get(req.params, "pipelineName")) \/ Falsy(Get(req.params, "executionId"))
    THEN Respond(resKind, 400, [error |-> "Pipeline name and execution ID are required"])
    ELSE Await("stopPipelineExecution",
               ServiceStopParams(req.params.pipelineName, req.params.executionId, Get(req.body, "reason")),
               "ctl_stopPipelineExecution", [req |-> req, res |-> resKind]),
    resKind, "Failed to stop pipeline execution")

ControllerStopPipelineExecutionResume(loc, out) ==
  ControllerTry(IF out.ok THEN Respond(loc.res, 200, [message |-> "Pipeline execution stopped successfully"])
                ELSE Throw(out.error),
                loc.res, "Failed to stop pipeline execution")

\* how Express sees the handler's promise settle
RestEnd(step) ==
  CASE step.t = "return" -> [kind |-> "resolved"]
    [] step.t = "throw" -> [kind |-> "rejected", error |-> step.error]
    [] OTHER -> [kind |-> "none"]

-----------------------------------------------------------------------------
(* MCPServer.handleTool *)

HandleToolNames ==
  { "listPipelines", "getPipelineState", "listPipelineExecutions", "approveAction",
    "retryStage", "triggerPipeline", "getPipelineExecutionLogs", "stopPipelineExecution" }

\* a value handleTool returns without calling the controller
Result(value) == [t |-> "result", value |-> value]

\* the switch on tool.name, up to the controller's first await
HandleToolSwitch(tool) ==
  LET params == Member(tool, "parameters")
      Arg(k) == ArgOf(Get(params, k))
      Second(k) == Arg(k).kind
      \* params.<k> on undefined parameters
      Guard(step) == IF "parameters" \in DOMAIN tool THEN step
                     ELSE Throw(TypeError(<<"Cannot read properties of undefined (reading 'pipelineName')">>))
  IN CASE tool.name = "listPipelines" -> ControllerListPipelines(ArgOf(Undef), "undefined")
       [] tool.name = "getPipelineState" ->
            Guard(ControllerGetPipelineState(Arg("pipelineName"), "undefined"))
       [] tool.name = "listPipelineExecutions" ->
            Guard(ControllerListPipelineExecutions(Arg("pipelineName"), "undefined"))
       [] tool.name = "approveAction" ->
            Guard(ControllerApproveAction(Arg("pipelineName"), Second("stageName")))
       [] tool.name = "retryStage" ->
            Guard(ControllerRetryStage(Arg("pipelineName"), Second("stageName")))
       [] tool.name = "triggerPipeline" ->
            Guard(ControllerTriggerPipeline(Arg("pipelineName"), "undefined"))
       [] tool.name = "getPipelineExecutionLogs" ->
            Guard(ControllerGetPipelineExecutionLogs(Arg("pipelineName"), Second("executionId")))
       [] tool.name = "stopPipelineExecution" ->
            Guard(ControllerStopPipelineExecution(Arg("pipelineName"), Second("executionId")))
       [] OTHER -> Result([status |-> "error",
                           error |-> [code |-> "UNKNOWN_TOOL", message |-> <<"Unknown tool: ", tool.name>>]])

\* a catch that reports a fixed message
HandleToolCatchFixed(error) ==
  [status |-> "error",
   error |-> [code |-> "INTERNAL_SERVER_ERROR", message |-> <<"Internal server error">>]]

\* catch (error): error.message || 'Internal server error'
HandleToolCatch(error) ==
  [status |-> "error",
   error |-> [code |-> "INTERNAL_SERVER_ERROR",
              message |-> IF error.message = <<>> THEN <<"Internal server error">> ELSE error.message]]

\* how handleTool's promise settles when the controller call ends
HandleToolEnd(step) ==
  CASE step.t = "return" -> [kind |-> "resolved", value |-> [status |-> "success"]]
    [] step.t = "result" -> [kind |-> "resolved", value |-> step.value]
    [] step.t = "throw" -> [kind |-> "resolved", value |-> HandleToolCatch(step.error)]
    [] OTHER -> [kind |-> "none"]

-----------------------------------------------------------------------------
(* The requests the model sends *)

NameOnly == { EmptyObj, [pipelineName |-> "p1"] }

Tags == { [key |-> "env", value |-> "prod"], [key |-> "team", value |-> "core", note |-> "x"] }

TagArguments ==
  NameOnly
  \cup { [pipelineName |-> "p1", tags |-> t] : t \in SeqsUpTo(Tags, MaxTags) }
  \cup { [tags |-> <<[key |-> "env", value |-> "prod"]>>] }

Filters ==
  { <<>>, <<[jsonPath |-> "$.ref", matchEquals |-> "refs/heads/main"], [jsonPath |-> "$.after"]>> }

WebhookArguments ==
  { EmptyObj }
  \cup { [pipelineName |-> "p1", webhookName |-> w, targetAction |-> "Source", authentication |-> a] @@ c @@ f :
           w \in {"hook1", "hook2"},
           a \in {"GITHUB_HMAC", "IP", "UNAUTHENTICATED"},
           c \in { EmptyObj,
                   [authenticationConfiguration |-> [SecretToken |-> "s3cret"]],
                   [authenticationConfiguration |-> [AllowedIpRange |-> "10.0.0.0/8"]] },
           f \in { EmptyObj } \cup { [filters |-> x] : x \in Filters } }

ApprovalTarget == [pipelineName |-> "p1", stageName |-> "Approve", actionName |-> "Gate", token |-> "tok"]

ApproveArguments ==
  { EmptyObj }
  \cup { ApprovalTarget @@ a @@ c :
           a \in { EmptyObj, [approved |-> [boolean |-> TRUE]], [approved |-> [boolean |-> FALSE]],
                   [approved |-> [string |-> "yes"]] },
           c \in { EmptyObj, [comments |-> "lgtm"] } }

RetryTarget == [pipelineName |-> "p1", stageName |-> "Build", pipelineExecutionId |-> "e1"]

RetryArguments == { EmptyObj, RetryTarget, RetryTarget @@ [retryMode |-> "ALL_ACTIONS"] }

ExecutionTarget == [pipelineName |-> "p1", executionId |-> "e1"]

Reasons == { EmptyObj, [reason |-> ""], [reason |-> "maintenance"] }

StopArguments ==
  { EmptyObj }
  \cup { ExecutionTarget @@ r @@ x : r \in Reasons, x \in { EmptyObj, [abandon |-> TRUE] } }

MetricsArguments ==
  { EmptyObj,
    [pipelineName |-> "p1"],
    [pipelineName |-> "p1", period |-> 3600],
    [pipelineName |-> "p1", startTime |-> IsoString(1000000, "YYYY-MM-DDTHH:mm:ss.sssZ"),
                            endTime |-> IsoString(2000000, "YYYY-MM-DDTHH:mm:ssZ")],
    [pipelineName |-> "p1", endTime |-> IsoString(2000000, "YYYY-MM-DDTHH:mm:ss.sssZ")],
    [pipelineName |-> "p1", startTime |-> [text |-> "yesterday"]] }

McpArguments(name) ==
  CASE name = "list_pipelines" -> { EmptyObj }
    [] name \in {"get_pipeline_state", "list_pipeline_executions", "trigger_pipeline", "get_pipeline_details"} -> NameOnly
    [] name = "approve_action" -> ApproveArguments
    [] name = "retry_stage" -> RetryArguments
    [] name = "get_pipeline_execution_logs" -> { EmptyObj, ExecutionTarget }
    [] name = "stop_pipeline_execution" -> StopArguments
    [] name = "tag_pipeline_resource" -> TagArguments
    [] name = "create_pipeline_webhook" -> WebhookArguments
    [] name = "get_pipeline_metrics" -> MetricsArguments
    [] OTHER -> { EmptyObj, [pipelineName |-> "p1"] }

UnknownNames == { "nonexistent_op", "listPipelines" }

\* request.params of a CallTool request: arguments is optional
CallToolParams ==
  UNION { { [name |-> n] } \cup { [name |-> n, arguments |-> a] : a \in McpArguments(n) } :
          n \in ToolNames \cup UnknownNames }

HandleToolParameters(name) ==
  CASE name = "approveAction" -> { EmptyObj, ApprovalTarget @@ [approved |-> [boolean |-> TRUE]] }
    [] name = "retryStage" -> { EmptyObj, RetryTarget }
    [] name \in {"getPipelineExecutionLogs", "stopPipelineExecution"} -> { EmptyObj, ExecutionTarget }
    [] OTHER -> NameOnly

Tools ==
  UNION { { [name |-> n] } \cup { [name |-> n, parameters |-> a] : a \in HandleToolParameters(n) } :
          n \in HandleToolNames \cup { "nonexistent_op", "list_pipelines" } }

RestRequests ==
  { [handler |-> "listPipelines", req |-> Request(EmptyObj, EmptyObj)] }
  \cup { [handler |-> h, req |-> Request(a, EmptyObj)] :
           h \in {"getPipelineState", "listPipelineExecutions"}, a \in NameOnly }
  \cup { [handler |-> "approveAction", req |-> Request(EmptyObj, a)] :
           a \in ApproveArguments \cup { [pipelineName |-> "p1", stageName |-> "Approve"] } }
  \cup { [handler |-> "retryStage", req |-> Request(EmptyObj, a)] : a \in RetryArguments }
  \cup { [handler |-> "triggerPipeline", req |-> Request(EmptyObj, a)] : a \in NameOnly }
  \cup { [handler |-> "getPipelineExecutionLogs", req |-> Request(a, EmptyObj)] :
           a \in { ExecutionTarget, [pipelineName |-> "p1"] } }
  \cup { [handler |-> "stopPipelineExecution", req |-> Request(a, r @@ x)] :
           a \in { ExecutionTarget, [executionId |-> "e1"] },
           r \in Reasons, x \in { EmptyObj, [abandon |-> TRUE] } }

\* the route table: the controller handler Express calls with (req, res)
Route(handler, req) ==
  CASE handler = "listPipelines" -> ControllerListPipelines(req, "response")
    [] handler = "getPipelineState" -> ControllerGetPipelineState(req, "response")
    [] handler = "listPipelineExecutions" -> ControllerListPipelineExecutions(req, "response")
    [] handler = "approveAction" -> ControllerApproveAction(req, "response")
    [] handler = "retryStage" -> ControllerRetryStage(req, "response")
    [] handler = "triggerPipeline" -> ControllerTriggerPipeline(req, "response")
    [] handler = "getPipelineExecutionLogs" -> ControllerGetPipelineExecutionLogs(req, "response")
    [] OTHER -> ControllerStopPipelineExecution(req, "response")

-----------------------------------------------------------------------------
(* The state machine *)

NoResult == [kind |-> "none"]

\* new CodePipelineManager(): the client is configured for AWS_REGION, us-west-2 by default
NewManager == [region |-> "us-west-2"]

Init ==
  /\ entry = "none"
  /\ request = EmptyObj
  /\ pc = "idle"
  /\ local = EmptyObj
  /\ calls = <<>>
  /\ result = NoResult
  /\ sent = <<>>
  /\ thrown = <<>>
  /\ settled = <<>>
  /\ manager = NewManager
  /\ remote = [webhooks |-> {}, linked |-> {}]

\* what the entry point makes of the end of its handler
End(e, step) ==
  CASE e = "mcp" -> CallToolEnd(step)
    [] e = "tool" -> HandleToolEnd(step)
    [] OTHER -> RestEnd(step)

\* the last call settled with the outcome
Settled(cs, out) == [cs EXCEPT ![Len(cs)].status = IF out.ok THEN "ok" ELSE "failed"]

\* the remote service after a call: a webhook put is stored, a registered one is linked
RemoteAfter(r, call, out) ==
  IF ~out.ok THEN r
  ELSE CASE call.api = "putWebhook" -> [r EXCEPT !.webhooks = @ \cup {Get(call.params.webhook, "name")}]
         [] call.api = "registerWebhookWithThirdParty" -> [r EXCEPT !.linked = @ \cup {Get(call.params, "webhookName")}]
         [] OTHER -> r

\* the call a handler issues through the client the manager hands out
Called(step, mgr) ==
  [api |-> step.api, params |-> step.params, status |-> "pending", region |-> mgr.region]

\* the handler ran on to its next await, or to its end
Proceed(e, cs, step) ==
  /\ calls' = IF step.t = "call"
              THEN Append(cs, Called(step, manager))
              ELSE cs
  /\ pc' = IF step.t = "call" THEN step.next ELSE "done"
  /\ local' = IF step.t = "call" THEN step.local ELSE local
  /\ sent' = IF "res" \in DOMAIN step THEN sent \o step.res ELSE sent
  /\ thrown' = IF step.t = "throw" THEN <<step.error>> ELSE thrown
  /\ result' = IF step.t = "call" THEN result ELSE End(e, step)

\* the awaited call settles and the handler runs on
Resume(out, step) ==
  /\ Proceed(entry, Settled(calls, out), step)
  /\ remote' = RemoteAfter(remote, calls[Len(calls)], out)
  /\ settled' = <<out>>
  /\ UNCHANGED <<entry, request, manager>>

OkOf(responses) == { Ok(r) : r \in responses }
Void == { Ok(EmptyObj) }

Input == InputOf(request)

\* the outcomes the call awaited at the label can have
Outcomes(label) ==
  CASE label = "list_pipelines" -> OkOf(ListPipelinesResponses) \cup Failures
    [] label = "get_pipeline_state" -> OkOf(GetPipelineStateResponses) \cup Failures
    [] label = "list_pipeline_executions" -> OkOf(ListPipelineExecutionsResponses) \cup Failures
    [] label = "approve_action" -> Void \cup Failures
    [] label = "retry_stage" -> Void \cup Failures
    [] label = "trigger_pipeline" -> OkOf(StartPipelineExecutionResponses) \cup Failures
    [] label = "get_pipeline_execution_logs" -> OkOf(GetPipelineExecutionResponses) \cup Failures
    [] label = "stop_pipeline_execution" -> Void \cup Failures
    [] label = "get_pipeline_details" -> OkOf(GetPipelineResponses) \cup Failures
    [] label = "tag_get_pipeline" -> OkOf(GetPipelineResponses) \cup Failures
    [] label = "tag_tag_resource" -> Void \cup Failures
    [] label = "webhook_put" -> OkOf(PutWebhookResponses) \cup Failures
    [] label = "webhook_register" -> Void \cup Failures
    [] label = "metrics_succeeded" -> OkOf(CountSeries) \cup Failures
    [] label = "metrics_failed" -> OkOf(CountSeries) \cup Failures
    [] label = "metrics_time" -> OkOf(TimeSeries) \cup Failures
    [] label = "metrics_list" -> OkOf(ListPipelineExecutionsResponses) \cup Failures
    [] label = "metrics_execution" -> OkOf(GetPipelineExecutionResponses) \cup Failures
    [] label = "metrics_state" -> OkOf(GetPipelineStateResponses) \cup Failures
    [] OTHER -> Failures

\* the handler resuming after the await at the label
ResumeAt(label, input, loc, out) ==
  CASE label = "list_pipelines" -> listPipelinesResume(out)
    [] label = "get_pipeline_state" -> getPipelineStateResume(out)
    [] label = "list_pipeline_executions" -> listPipelineExecutionsResume(out)
    [] label = "approve_action" -> approveActionResume(input, out)
    [] label = "retry_stage" -> retryStageResume(out)
    [] label = "trigger_pipeline" -> triggerPipelineResume(out)
    [] label = "get_pipeline_execution_logs" -> getPipelineExecutionLogsResume(input, out)
    [] label = "stop_pipeline_execution" -> stopPipelineExecutionResume(out)
    [] label = "get_pipeline_details" -> getPipelineDetailsResume(out)
    [] label = "tag_get_pipeline" -> tagPipelineResourceLookedUp(input, out)
    [] label = "tag_tag_resource" -> tagPipelineResourceTagged(input, loc, out)
    [] label = "webhook_put" -> createPipelineWebhookPut(input, out)
    [] label = "webhook_register" -> createPipelineWebhookRegistered(input, loc, out)
    [] label = "metrics_succeeded" -> getPipelineMetricsSucceeded(loc, out)
    [] label = "metrics_failed" -> getPipelineMetricsFailed(loc, out)
    [] label = "metrics_time" -> getPipelineMetricsTime(loc, out)
    [] label = "metrics_list" -> getPipelineMetricsListed(loc, out)
    [] label = "metrics_execution" -> getPipelineMetricsExecution(loc, out)
    [] label = "metrics_state" -> getPipelineMetricsState(loc, out)
    [] OTHER -> Throw(out.error)

\* the ListTools request handler: it returns the schemas, in this order
ListTools ==
  /\ pc = "idle"
  /\ entry' = "list"
  /\ pc' = "done"
  /\ result' = [kind |-> "resolved", value |-> ListToolsResult]
  /\ UNCHANGED <<request, local, calls, sent, thrown, settled, manager, remote>>

CallTool ==
  /\ pc = "idle"
  /\ \E params \in CallToolParams :
       /\ entry' = "mcp"
       /\ request' = params
       /\ Proceed("mcp", calls, CallToolSwitch(params.name, InputOf(params)))
  /\ UNCHANGED <<settled, manager, remote>>

HandleTool ==
  /\ pc = "idle"
  /\ \E tool \in Tools :
       /\ entry' = "tool"
       /\ request' = tool
       /\ Proceed("tool", calls, HandleToolSwitch(tool))
  /\ UNCHANGED <<settled, manager, remote>>

RestRequest ==
  /\ pc = "idle"
  /\ \E r \in RestRequests :
       /\ entry' = "rest"
       /\ request' = r
       /\ Proceed("rest", calls, Route(r.handler, r.req))
  /\ UNCHANGED <<settled, manager, remote>>

(* One action per await of a tool handler: the call settles, the handler   *)
(* runs on.                                                                *)

AwaitListPipelines ==
  /\ pc = "list_pipelines"
  /\ \E out \in Outcomes(pc) : Resume(out, ResumeAt(pc, Input, local, out))

AwaitGetPipelineState ==
  /\ pc = "get_pipeline_state"
  /\ \E out \in Outcomes(pc) : Resume(out, ResumeAt(pc, Input, local, out))

AwaitListPipelineExecutions ==
  /\ pc = "list_pipeline_executions"
  /\ \E out \in Outcomes(pc) : Resume(out, ResumeAt(pc, Input, local, out))

AwaitApproveAction ==
  /\ pc = "approve_action"
  /\ \E out \in Outcomes(pc) : Resume(out, ResumeAt(pc, Input, local, out))

AwaitRetryStage ==
  /\ pc = "retry_stage"
  /\ \E out \in Outcomes(pc) : Resume(out, ResumeAt(pc, Input, local, out))

AwaitTriggerPipeline ==
  /\ pc = "trigger_pipeline"
  /\ \E out \in Outcomes(pc) : Resume(out, ResumeAt(pc, Input, local, out))

AwaitGetPipelineExecutionLogs ==
  /\ pc = "get_pipeline_execution_logs"
  /\ \E out \in Outcomes(pc) : Resume(out, ResumeAt(pc, Input, local, out))

AwaitStopPipelineExecution ==
  /\ pc = "stop_pipeline_execution"
  /\ \E out \in Outcomes(pc) : Resume(out, ResumeAt(pc, Input, local, out))

AwaitGetPipelineDetails ==
  /\ pc = "get_pipeline_details"
  /\ \E out \in Outcomes(pc) : Resume(out, ResumeAt(pc, Input, local, out))

AwaitTagGetPipeline ==
  /\ pc = "tag_get_pipeline"
  /\ \E out \in Outcomes(pc) : Resume(out, ResumeAt(pc, Input, local, out))

AwaitTagResource ==
  /\ pc = "tag_tag_resource"
  /\ \E out \in Outcomes(pc) : Resume(out, ResumeAt(pc, Input, local, out))

AwaitPutWebhook ==
  /\ pc = "webhook_put"
  /\ \E out \in Outcomes(pc) : Resume(out, ResumeAt(pc, Input, local, out))

AwaitRegisterWebhook ==
  /\ pc = "webhook_register"
  /\ \E out \in Outcomes(pc) : Resume(out, ResumeAt(pc, Input, local, out))

AwaitMetricsSucceeded ==
  /\ pc = "metrics_succeeded"
  /\ \E out \in Outcomes(pc) : Resume(out, ResumeAt(pc, Input, local, out))

AwaitMetricsFailed ==
  /\ pc = "metrics_failed"
  /\ \E out \in Outcomes(pc) : Resume(out, ResumeAt(pc, Input, local, out))

AwaitMetricsTime ==
  /\ pc = "metrics_time"
  /\ \E out \in Outcomes(pc) : Resume(out, ResumeAt(pc, Input, local, out))

AwaitMetricsList ==
  /\ pc = "metrics_list"
  /\ \E out \in Outcomes(pc) : Resume(out, ResumeAt(pc, Input, local, out))

AwaitMetricsExecution ==
  /\ pc = "metrics_execution"
  /\ \E out \in Outcomes(pc) : Resume(out, ResumeAt(pc, Input, local, out))

AwaitMetricsState ==
  /\ pc = "metrics_state"
  /\ \E out \in Outcomes(pc) : Resume(out, ResumeAt(pc, Input, local, out))

(* One action per await of a controller handler *)

CtlAwaitListPipelines ==
  /\ pc = "ctl_listPipelines"
  /\ \E out \in OkOf(ListPipelinesResponses) \cup Failures :
       Resume(out, ControllerListPipelinesResume(local, out))

CtlAwaitGetPipelineState ==
  /\ pc = "ctl_getPipelineState"
  /\ \E out \in OkOf(GetPipelineStateResponses) \cup Failures :
       Resume(out, ControllerGetPipelineStateResume(local, out))

CtlAwaitListPipelineExecutions ==
  /\ pc = "ctl_listPipelineExecutions"
  /\ \E out \in OkOf(ListPipelineExecutionsResponses) \cup Failures :
       Resume(out, ControllerListPipelineExecutionsResume(local, out))

CtlAwaitApproveAction ==
  /\ pc = "ctl_approveAction"
  /\ \E out \in Void \cup Failures : Resume(out, ControllerApproveActionResume(local, out))

CtlAwaitRetryStage ==
  /\ pc = "ctl_retryStage"
  /\ \E out \in Void \cup Failures : Resume(out, ControllerRetryStageResume(local, out))

CtlAwaitTriggerPipeline ==
  /\ pc = "ctl_triggerPipeline"
  /\ \E out \in OkOf(StartPipelineExecutionResponses) \cup Failures :
       Resume(out, ControllerTriggerPipelineResume(local, out))

CtlAwaitGetPipelineExecutionLogs ==
  /\ pc = "ctl_getPipelineExecutionLogs"
  /\ \E out \in OkOf(GetPipelineExecutionResponses) \cup Failures :
       Resume(out, ControllerGetPipelineExecutionLogsResume(local, out))

CtlAwaitStopPipelineExecution ==
  /\ pc = "ctl_stopPipelineExecution"
  /\ \E out \in Void \cup Failures : Resume(out, ControllerStopPipelineExecutionResume(local, out))

Next ==
  \/ ListTools
  \/ CallTool
  \/ HandleTool
  \/ RestRequest
  \/ AwaitListPipelines
  \/ AwaitGetPipelineState
  \/ AwaitListPipelineExecutions
  \/ AwaitApproveAction
  \/ AwaitRetryStage
  \/ AwaitTriggerPipeline
  \/ AwaitGetPipelineExecutionLogs
  \/ AwaitStopPipelineExecution
  \/ AwaitGetPipelineDetails
  \/ AwaitTagGetPipeline
  \/ AwaitTagResource
  \/ AwaitPutWebhook
  \/ AwaitRegisterWebhook
  \/ AwaitMetricsSucceeded
  \/ AwaitMetricsFailed
  \/ AwaitMetricsTime
  \/ AwaitMetricsList
  \/ AwaitMetricsExecution
  \/ AwaitMetricsState
  \/ CtlAwaitListPipelines
  \/ CtlAwaitGetPipelineState
  \/ CtlAwaitListPipelineExecutions
  \/ CtlAwaitApproveAction
  \/ CtlAwaitRetryStage
  \/ CtlAwaitTriggerPipeline
  \/ CtlAwaitGetPipelineExecutionLogs
  \/ CtlAwaitStopPipelineExecution

Spec == Init /\ [][Next]_vars

\* ---------------------------------------------------------------------------
\* Interleaved invocations of the CallTool handler.  Every invocation has its
\* own position, locals, calls and result, so under this specification pc,
\* local, calls, result, thrown and request are functions of the invocation
\* and settled keeps, per invocation, every outcome it was handed; the
\* manager and the remote service are the one thing they all share.
\* ---------------------------------------------------------------------------

MaxInvocations == 2
Invocations == 1..MaxInvocations

ConcurrentParams ==
  { [name |-> "list_pipelines"],
    [name |-> "no_such_tool"],
    [name |-> "tag_pipeline_resource",
     arguments |-> [pipelineName |-> "p1", tags |-> <<[key |-> "k1", value |-> "v1"]>>]],
    [name |-> "create_pipeline_webhook",
     arguments |-> [pipelineName |-> "p1", webhookName |-> "w1",
                    targetAction |-> "Source", authentication |-> "UNAUTHENTICATED"]],
    [name |-> "get_pipeline_metrics", arguments |-> [pipelineName |-> "p1"]] }

\* the responses the interleaved invocations are answered with
ConcurrentOutcomes(label) ==
  CASE label \in {"metrics_succeeded", "metrics_failed"} ->
         { Ok([Datapoints |-> <<[Sum |-> 2, Timestamp |-> 5]>>]), Throttled }
    [] label = "metrics_time" -> { Ok([Datapoints |-> <<>>]) }
    [] label = "metrics_list" ->
         { Ok([pipelineExecutionSummaries |-> <<ExecSucceeded>>]), Throttled }
    [] label = "metrics_execution" -> { Ok(r) : r \in GetPipelineExecutionResponses }
    [] label = "metrics_state" -> { Ok([pipelineName |-> "p1", stageStates |-> <<StageSource, StageBuild>>]) }
    [] OTHER -> Outcomes(label)

\* an invocation that has not started
Idle == [pc |-> "idle", local |-> EmptyObj, calls |-> <<>>, result |-> NoResult, thrown |-> <<>>]

\* one invocation after its handler ran on to its next await, or to its end
Advance(inv, mgr, step) ==
  [pc |-> IF step.t = "call" THEN step.next ELSE "done",
   local |-> IF step.t = "call" THEN step.local ELSE inv.local,
   calls |-> IF step.t = "call" THEN Append(inv.calls, Called(step, mgr)) ELSE inv.calls,
   result |-> IF step.t = "call" THEN inv.result ELSE CallToolEnd(step),
   thrown |-> IF step.t = "throw" THEN <<step.error>> ELSE inv.thrown]

\* what a handler leaves of the manager: it only ever asks it for the client
ManagerAfterReconfigured(mgr, step) ==
  IF step.t = "call" /\ step.api = "tagResource" THEN [mgr EXCEPT !.region = "us-east-1"] ELSE mgr

ManagerAfter(mgr, step) == mgr

Invocation(i) ==
  [pc |-> pc[i], local |-> local[i], calls |-> calls[i], result |-> result[i], thrown |-> thrown[i]]

Becomes(i, inv) ==
  /\ pc' = [pc EXCEPT ![i] = inv.pc]
  /\ local' = [local EXCEPT ![i] = inv.local]
  /\ calls' = [calls EXCEPT ![i] = inv.calls]
  /\ result' = [result EXCEPT ![i] = inv.result]
  /\ thrown' = [thrown EXCEPT ![i] = inv.thrown]

\* the dispatcher starts an invocation
Started(params, mgr) == Advance(Idle, mgr, CallToolSwitch(params.name, InputOf(params)))

\* the call an invocation awaits settles and its handler runs on
Continued(inv, params, mgr, out) ==
  Advance([inv EXCEPT !.calls = Settled(@, out)], mgr,
          ResumeAt(inv.pc, InputOf(params), inv.local, out))

ConcurrentInit ==
  /\ entry = "mcp"
  /\ request = [i \in Invocations |-> EmptyObj]
  /\ pc = [i \in Invocations |-> "idle"]
  /\ local = [i \in Invocations |-> EmptyObj]
  /\ calls = [i \in Invocations |-> <<>>]
  /\ result = [i \in Invocations |-> NoResult]
  /\ thrown = [i \in Invocations |-> <<>>]
  /\ settled = [i \in Invocations |-> <<>>]
  /\ sent = <<>>
  /\ manager = NewManager
  /\ remote = [webhooks |-> {}, linked |-> {}]

ConcurrentCallTool(i) ==
  /\ pc[i] = "idle"
  /\ \E params \in ConcurrentParams :
       /\ request' = [request EXCEPT ![i] = params]
       /\ Becomes(i, Started(params, manager))
       /\ manager' = ManagerAfter(manager, CallToolSwitch(params.name, InputOf(params)))
  /\ UNCHANGED <<entry, sent, settled, remote>>

ConcurrentAwait(i) ==
  /\ pc[i] \notin {"idle", "done"}
  /\ \E out \in ConcurrentOutcomes(pc[i]) :
       /\ Becomes(i, Continued(Invocation(i), request[i], manager, out))
       /\ settled' = [settled EXCEPT ![i] = Append(@, out)]
       /\ remote' = RemoteAfter(remote, calls[i][Len(calls[i])], out)
       /\ manager' = ManagerAfter(manager, ResumeAt(pc[i], InputOf(request[i]), local[i], out))
  /\ UNCHANGED <<entry, request, sent>>

ConcurrentNext == \E i \in Invocations : ConcurrentCallTool(i) \/ ConcurrentAwait(i)

Concurrent == ConcurrentInit /\ [][ConcurrentNext]_vars

\* ---------------------------------------------------------------------------
\* One get_pipeline_metrics invocation followed with its whole history: as
\* under Concurrent the variables are functions of the invocation (there is
\* one, invocation 1) and settled keeps every outcome the handler was handed,
\* so that what it reports can be compared with all the snapshots it fetched.
\* ---------------------------------------------------------------------------

TracedParams ==
  { [name |-> "get_pipeline_metrics", arguments |-> [pipelineName |-> "p1"]],
    [name |-> "get_pipeline_metrics", arguments |-> [pipelineName |-> "p1", period |-> 3600]] }

\* the responses the traced invocation is answered with
TracedOutcomes(label) ==
  CASE label \in {"metrics_succeeded", "metrics_failed"} ->
         { Ok([Datapoints |-> <<[Sum |-> 2, Timestamp |-> 5]>>]) }
    [] label = "metrics_time" -> { Ok([Datapoints |-> <<>>]) }
    [] label = "metrics_execution" -> { Ok(EmptyObj), Throttled }
    [] OTHER -> Outcomes(label)

TracedInit ==
  /\ entry = "mcp"
  /\ request = <<EmptyObj>>
  /\ pc = <<"idle">>
  /\ local = <<EmptyObj>>
  /\ calls = << <<>> >>
  /\ result = <<NoResult>>
  /\ thrown = << <<>> >>
  /\ settled = << <<>> >>
  /\ sent = <<>>
  /\ manager = NewManager
  /\ remote = [webhooks |-> {}, linked |-> {}]

TracedCallTool ==
  /\ pc[1] = "idle"
  /\ \E params \in TracedParams :
       /\ request' = [request EXCEPT ![1] = params]
       /\ Becomes(1, Started(params, manager))
  /\ UNCHANGED <<entry, sent, settled, manager, remote>>

TracedAwait ==
  /\ pc[1] \notin {"idle", "done"}
  /\ \E out \in TracedOutcomes(pc[1]) :
       /\ Becomes(1, Continued(Invocation(1), request[1], manager, out))
       /\ settled' = [settled EXCEPT ![1] = Append(@, out)]
  /\ UNCHANGED <<entry, request, sent, manager, remote>>

TracedNext == TracedCallTool \/ TracedAwait

Traced == TracedInit /\ [][TracedNext]_vars

-----------------------------------------------------------------------------
(* Properties *)

\* the invocation is served by entry point e under the name n
Served(e, n) == entry = e /\ request.name = n

Ended(e) == entry = e /\ pc = "done"

\* the payload serialized into the success envelope
Payload == result.value.content[1].text.json

\* { content: [{ type: "text", text: JSON.stringify(payload, null, 2) }] }
IsSuccessEnvelope(v) ==
  /\ DOMAIN v = {"content"}
  /\ Len(v.content) = 1
  /\ v.content[1].type = "text"
  /\ v.content[1].text.indent = 2

IsMcpError(e) == e.name = "McpError" /\ e.code \in {"InvalidRequest", "InternalError"}

RejectedWithMcpError == result.kind = "rejected" /\ IsMcpError(result.error)

\* C1: for every tool name, argument bag and outcome of the remote calls, the
\* CallTool dispatcher ends the invocation either with a success envelope (one
\* text content block) or with an McpError; nothing else escapes it.
DispatchEndsInEnvelope ==
  Ended("mcp") =>
    \/ result.kind = "resolved" /\ IsSuccessEnvelope(result.value)
    \/ RejectedWithMcpError

\* a metrics invocation that failed at a late remote call and ended with an McpError
DispatchEndsInEnvelopeWitness ==
  /\ Ended("mcp")
  /\ request.name = "get_pipeline_metrics"
  /\ Len(calls) >= 5
  /\ calls[Len(calls)].status = "failed"
  /\ RejectedWithMcpError

\* C2: a name that is not registered ends in an error whose code is the
\* unknown-operation one (InvalidRequest from the CallTool dispatcher,
\* UNKNOWN_TOOL from handleTool), never the internal-error code, and the
\* invocation issues no remote call.
UnknownNameRejected ==
  /\ (Ended("mcp") /\ request.name \notin ToolNames) =>
       /\ RejectedWithMcpError
       /\ result.error.code = "InvalidRequest"
       /\ result.error.code # "InternalError"
       /\ Contains(result.error.message, <<"Unknown tool: ", request.name>>)
       /\ calls = <<>>
  /\ (Ended("tool") /\ request.name \notin HandleToolNames) =>
       /\ result.kind = "resolved"
       /\ result.value.status = "error"
       /\ result.value.error.code = "UNKNOWN_TOOL"
       /\ result.value.error.code # "INTERNAL_SERVER_ERROR"
       /\ calls = <<>>

UnknownNameRejectedWitness ==
  /\ Ended("mcp")
  /\ request.name = "nonexistent_op"
  /\ "arguments" \in DOMAIN request
  /\ result.kind = "rejected"
  /\ calls = <<>>

\* C3: create_pipeline_webhook issues putWebhook and then
\* registerWebhookWithThirdParty, in that order and each once; the register
\* call is issued only after putWebhook succeeded; on success both calls
\* succeeded and webhookDetails.name is the input webhookName.
WebhookPutThenRegister ==
  Served("mcp", "create_pipeline_webhook") =>
    /\ Len(calls) <= 2
    /\ Len(calls) >= 1 => calls[1].api = "putWebhook"
    /\ Len(calls) = 2 => /\ calls[2].api = "registerWebhookWithThirdParty"
                         /\ calls[1].status = "ok"
                         /\ Get(calls[2].params, "webhookName") = Get(Input, "webhookName")
    /\ (pc = "done" /\ result.kind = "resolved") =>
         /\ Len(calls) = 2
         /\ calls[1].status = "ok" /\ calls[2].status = "ok"
         /\ Get(Payload.webhookDetails, "name") = Get(Input, "webhookName")
         /\ Get(calls[1].params.webhook, "name") = Get(Input, "webhookName")

\* a GITHUB_HMAC webhook with a SecretToken, created and registered
WebhookPutThenRegisterWitness ==
  /\ Served("mcp", "create_pipeline_webhook")
  /\ pc = "done"
  /\ result.kind = "resolved"
  /\ Get(Input, "authentication") = "GITHUB_HMAC"
  /\ "SecretToken" \in DOMAIN Member(Input, "authenticationConfiguration")
  /\ Payload.webhookDetails.name = "hook2"
  /\ Len(calls) = 2

\* C4: when the register call fails after putWebhook succeeded, the
\* invocation has ended with an McpError, it issued no third call (nothing
\* deletes or deregisters the webhook), and the remote service holds the
\* webhook, not linked.
RegisterFailureLeavesWebhook ==
  (Served("mcp", "create_pipeline_webhook") /\ Len(calls) >= 2 /\ calls[2].status = "failed") =>
    /\ pc = "done"
    /\ RejectedWithMcpError
    /\ Len(calls) = 2
    /\ calls[1].status = "ok"
    /\ Get(calls[1].params.webhook, "name") \in remote.webhooks
    /\ Get(calls[1].params.webhook, "name") \notin remote.linked

RegisterFailureLeavesWebhookWitness ==
  /\ Served("mcp", "create_pipeline_webhook")
  /\ Len(calls) = 2
  /\ calls[1].status = "ok"
  /\ calls[2].status = "failed"
  /\ remote.webhooks = {"hook1"}
  /\ remote.linked = {}

\* the lookup's response carries no pipeline ARN
NoArn(response) == Get(Member(response, "metadata"), "pipelineArn") \in {Undef, ""}

\* C5: when the details lookup of tag_pipeline_resource returns a response
\* without a pipeline ARN, the invocation ends at once with an error whose
\* message says the ARN of the pipeline could not be found, and no
\* tagResource call is issued.
TagWithoutArnFails ==
  [][ (entry = "mcp" /\ pc = "tag_get_pipeline" /\ Len(settled') = 1
       /\ settled'[1].ok /\ NoArn(settled'[1].data)) =>
        /\ pc' = "done"
        /\ result'.kind = "rejected"
        /\ IsMcpError(result'.error)
        /\ Contains(result'.error.message,
                    <<"Could not find ARN for pipeline: ", Get(Input, "pipelineName")>>)
        /\ \A i \in 1..Len(calls') : calls'[i].api # "tagResource"
        /\ Len(calls') = 1 ]_vars

TagWithoutArnFailsWitness ==
  /\ Served("mcp", "tag_pipeline_resource")
  /\ pc = "done"
  /\ "tags" \in DOMAIN Input
  /\ Len(calls) = 1
  /\ calls[1].status = "ok"
  /\ NoArn(settled[1].data)
  /\ thrown = <<JsError(<<"Could not find ARN for pipeline: ", "p1">>)>>
  /\ result.kind = "rejected"

\* C6: a successful tag_pipeline_resource issued getPipeline and then
\* tagResource, each once; tagResource carried the ARN the lookup returned
\* and the input tags, key by key and value by value in the input's order;
\* the envelope echoes that ARN and the input tags.
TagAppliesInputTags ==
  (Served("mcp", "tag_pipeline_resource") /\ pc = "done" /\ result.kind = "resolved") =>
    /\ Len(calls) = 2
    /\ calls[1].api = "getPipeline" /\ calls[1].status = "ok"
    /\ calls[2].api = "tagResource" /\ calls[2].status = "ok"
    /\ calls[2].params.resourceArn = local.pipelineResponse.metadata.pipelineArn
    /\ Len(calls[2].params.tags) = Len(Input.tags)
    /\ \A i \in 1..Len(Input.tags) :
         /\ DOMAIN calls[2].params.tags[i] = {"key", "value"}
         /\ calls[2].params.tags[i].key = Input.tags[i].key
         /\ calls[2].params.tags[i].value = Input.tags[i].value
    /\ Payload.resourceArn = local.pipelineResponse.metadata.pipelineArn
    /\ Payload.tags = Input.tags

\* two different tags applied to the pipeline the lookup found
TagAppliesInputTagsWitness ==
  /\ Served("mcp", "tag_pipeline_resource")
  /\ pc = "done"
  /\ result.kind = "resolved"
  /\ Len(Input.tags) = 2
  /\ Input.tags[1] # Input.tags[2]
  /\ calls[2].params.resourceArn = "arn:other"

\* C7: whatever a handler throws (a remote failure, the missing-ARN error, a
\* TypeError or RangeError of the handler's own code) ends in the one
\* generic code of its dispatcher (InternalError from CallTool,
\* INTERNAL_SERVER_ERROR from handleTool) with a message that contains the
\* thrown error's message.
HandlerFailureMapped ==
  /\ (Ended("mcp") /\ request.name \in ToolNames /\ thrown # <<>>) =>
       /\ result.kind = "rejected"
       /\ result.error.name = "McpError"
       /\ result.error.code = "InternalError"
       /\ Contains(result.error.message, thrown[1].message)
  /\ (Ended("tool") /\ thrown # <<>>) =>
       /\ result.kind = "resolved"
       /\ result.value.status = "error"
       /\ result.value.error.code = "INTERNAL_SERVER_ERROR"
       /\ Contains(result.value.error.message, thrown[1].message)

\* mapping over the missing tags array
HandlerFailureMappedWitness ==
  /\ Ended("mcp")
  /\ request.name = "tag_pipeline_resource"
  /\ thrown # <<>>
  /\ thrown[1].name = "TypeError"
  /\ result.kind = "rejected"

\* C8: in a tool invocation a failed remote call is the last call of the
\* invocation (none is issued after it, none is issued again), and the
\* invocation has ended with an error, never with a success payload.
FailureAbortsInvocation ==
  \A i \in 1..Len(calls) :
    calls[i].status = "failed" =>
      /\ i = Len(calls)
      /\ pc = "done"
      /\ entry = "mcp" => RejectedWithMcpError
      /\ entry = "tool" => result.kind = "resolved" /\ result.value.status = "error"

\* the metrics loop failing at the lookup of its second execution
FailureAbortsInvocationWitness ==
  /\ Ended("mcp")
  /\ request.name = "get_pipeline_metrics"
  /\ Len(calls) = 7
  /\ calls[7].api = "getPipelineExecution"
  /\ calls[7].status = "failed"

\* C9: every remote stop call carries abandon = false, and carries the
\* reason "Stopped by user" when the input supplies no reason.
StopIsGraceful ==
  \A i \in 1..Len(calls) :
    calls[i].api = "stopPipelineExecution" =>
      /\ calls[i].params.abandon = FALSE
      /\ (entry = "mcp" /\ "reason" \notin DOMAIN Input) => calls[i].params.reason = "Stopped by user"
      /\ (entry = "rest" /\ "reason" \notin DOMAIN request.req.body) =>
           calls[i].params.reason = "Stopped by user"

\* a stop without a reason whose input asked for abandon
StopIsGracefulWitness ==
  /\ Served("mcp", "stop_pipeline_execution")
  /\ "reason" \notin DOMAIN Input
  /\ "abandon" \in DOMAIN Input
  /\ Len(calls) = 1
  /\ calls[1].api = "stopPipelineExecution"
  /\ calls[1].params.reason = "Stopped by user"

\* C10: every remote retry call carries retryMode FAILED_ACTIONS, whatever
\* the input says.
RetryOnlyFailedActions ==
  \A i \in 1..Len(calls) :
    calls[i].api = "retryStageExecution" => calls[i].params.retryMode = "FAILED_ACTIONS"

\* a retry whose input asked for another retry mode
RetryOnlyFailedActionsWitness ==
  /\ Served("mcp", "retry_stage")
  /\ Get(Input, "retryMode") = "ALL_ACTIONS"
  /\ Len(calls) = 1
  /\ calls[1].api = "retryStageExecution"
  /\ calls[1].status = "ok"

\* C11: a get_pipeline_metrics invocation whose success and failure series
\* sum to zero executions reports successRate "0.00%" when it succeeds, and
\* when it fails it is for a failed remote call or an invalid date, never
\* for the division.
ZeroExecutionsZeroRate ==
  (Served("mcp", "get_pipeline_metrics") /\ pc = "done" /\ "totalFailed" \in DOMAIN local
   /\ local.totalSuccessful + local.totalFailed = 0) =>
    /\ result.kind = "resolved" =>
         /\ Payload.executionStats.totalExecutions = 0
         /\ Payload.executionStats.successRate = "0.00%"
    /\ result.kind = "rejected" =>
         \/ calls[Len(calls)].status = "failed"
         \/ ~local.startTime.valid
         \/ ~local.endTime.valid

\* a successful invocation over series without executions
ZeroExecutionsZeroRateWitness ==
  /\ Served("mcp", "get_pipeline_metrics")
  /\ pc = "done"
  /\ result.kind = "resolved"
  /\ local.totalSuccessful = 0 /\ local.totalFailed = 0
  /\ Payload.executionStats.successRate = "0.00%"

\* the top-level key the payload of each tool is to be found under
PayloadKey(name) ==
  CASE name = "list_pipelines" -> "pipelines"
    [] name = "get_pipeline_state" -> "pipelineState"
    [] name = "list_pipeline_executions" -> "executions"
    [] name = "get_pipeline_execution_logs" -> "logs"
    [] name = "get_pipeline_details" -> "pipeline"
    [] name = "get_pipeline_metrics" -> "metrics"
    [] name = "create_pipeline_webhook" -> "webhookDetails"
    [] OTHER -> "message"

\* C12: every successful call of a tool returns one text content block,
\* serialized with a 2-space indent, whose JSON has the payload under the
\* top-level key named for it (pipelines, pipelineState, executions, logs,
\* metrics, webhookDetails, message).
EnvelopeKeyedByPayload ==
  (Ended("mcp") /\ result.kind = "resolved") =>
    /\ IsSuccessEnvelope(result.value)
    /\ PayloadKey(request.name) \in DOMAIN Payload

\* the same for every tool but get_pipeline_metrics
EnvelopeKeyedByPayloadButMetrics ==
  (Ended("mcp") /\ result.kind = "resolved" /\ request.name # "get_pipeline_metrics") =>
    /\ IsSuccessEnvelope(result.value)
    /\ PayloadKey(request.name) \in DOMAIN Payload

\* a successful get_pipeline_metrics whose JSON has no metrics key
MetricsNotKeyed ==
  /\ Served("mcp", "get_pipeline_metrics")
  /\ pc = "done"
  /\ result.kind = "resolved"
  /\ "metrics" \notin DOMAIN Payload
  /\ {"timeRange", "executionStats", "executionTime", "stagePerformance"} \subseteq DOMAIN Payload

\* the payload fields of the list tools and the scalar fields of
\* get_pipeline_state are present whatever the remote response left out
ListAndStateDefaultsEmitted ==
  (Ended("mcp") /\ result.kind = "resolved") =>
    /\ request.name = "get_pipeline_state" =>
         {"pipelineName", "pipelineVersion", "stageStates", "created", "updated"}
           \subseteq DOMAIN Payload.pipelineState
    /\ request.name = "list_pipelines" =>
         \A i \in 1..Len(Payload.pipelines) :
           DOMAIN Payload.pipelines[i] = {"name", "version", "created", "updated"}
    /\ request.name = "list_pipeline_executions" =>
         \A i \in 1..Len(Payload.executions) :
           /\ DOMAIN Payload.executions[i] =
                {"pipelineExecutionId", "status", "startTime", "lastUpdateTime", "sourceRevisions"}
           /\ \A j \in 1..Len(Payload.executions[i].sourceRevisions) :
                DOMAIN Payload.executions[i].sourceRevisions[j] =
                  {"name", "revisionId", "revisionUrl", "revisionSummary"}

\* C13: in every tool's payload a field the remote response left out is
\* emitted with a default and never left absent: stages, their actions and
\* artifactStore of get_pipeline_details, pipelineExecutionId, status and
\* artifactRevisions of get_pipeline_execution_logs, the scalar fields of
\* get_pipeline_state and the fields of the list tools.
AbsentFieldsDefaulted ==
  /\ ListAndStateDefaultsEmitted
  /\ (Ended("mcp") /\ result.kind = "resolved") =>
       /\ request.name = "get_pipeline_details" =>
            /\ {"stages", "artifactStore"} \subseteq DOMAIN Payload.pipeline
            /\ \A i \in 1..Len(Payload.pipeline.stages) : "actions" \in DOMAIN Payload.pipeline.stages[i]
       /\ request.name = "get_pipeline_execution_logs" =>
            {"pipelineExecutionId", "status", "artifactRevisions"}
              \subseteq DOMAIN Payload.logs.pipelineExecution

\* get_pipeline_details over a response without a pipeline: no stages, no artifactStore
DetailsFieldsAbsent ==
  /\ Served("mcp", "get_pipeline_details")
  /\ pc = "done"
  /\ result.kind = "resolved"
  /\ settled[1].data = EmptyObj
  /\ "stages" \notin DOMAIN Payload.pipeline
  /\ "artifactStore" \notin DOMAIN Payload.pipeline

\* a sequence of n stages, each with actionStates as a sequence
StagesWellFormed(state, n) ==
  /\ "stageStates" \in DOMAIN state
  /\ DOMAIN state.stageStates = 1..n
  /\ \A i \in 1..n :
       /\ "actionStates" \in DOMAIN state.stageStates[i]
       /\ DOMAIN state.stageStates[i].actionStates = 1..Len(state.stageStates[i].actionStates)

\* the number of stages the remote response carries
RemoteStageCount(response) ==
  IF "stageStates" \in DOMAIN response THEN Len(response.stageStates) ELSE 0

\* C14: the pipeline state returned by get_pipeline_state (the tool, and
\* the service method behind the REST route) always has stageStates as a
\* sequence, empty when the remote response omits it, and every stage in it
\* has actionStates as a sequence, empty when the remote stage omits it.
StageStatesAlwaysSequence ==
  /\ (Served("mcp", "get_pipeline_state") /\ pc = "done" /\ result.kind = "resolved") =>
       StagesWellFormed(Payload.pipelineState, RemoteStageCount(settled[1].data))
  /\ (entry = "rest" /\ request.handler = "getPipelineState" /\ pc = "done"
      /\ Len(sent) = 1 /\ sent[1].status = 200) =>
       StagesWellFormed(sent[1].body.pipelineState, RemoteStageCount(settled[1].data))

\* the remote response omits stageStates
StageStatesAlwaysSequenceWitness ==
  /\ Served("mcp", "get_pipeline_state")
  /\ pc = "done"
  /\ result.kind = "resolved"
  /\ "stageStates" \notin DOMAIN settled[1].data
  /\ Payload.pipelineState.stageStates = <<>>

\* the remote account holds no pipeline: the list is empty or left out
NoPipelines(response) == "pipelines" \notin DOMAIN response \/ response.pipelines = <<>>

HasEmptyPipelines(payload) == "pipelines" \in DOMAIN payload /\ payload.pipelines = <<>>

\* C15: when the remote listPipelines succeeds with an empty list or without
\* the pipelines field, list_pipelines (the tool, and the service method
\* behind the REST route) answers with success and pipelines the empty
\* sequence, not with an error.
EmptyAccountListsNothing ==
  /\ (Served("mcp", "list_pipelines") /\ pc = "done" /\ settled[1].ok /\ NoPipelines(settled[1].data)) =>
       /\ result.kind = "resolved"
       /\ IsSuccessEnvelope(result.value)
       /\ HasEmptyPipelines(Payload)
  /\ (entry = "rest" /\ request.handler = "listPipelines" /\ pc = "done"
      /\ settled[1].ok /\ NoPipelines(settled[1].data)) =>
       /\ Len(sent) = 1
       /\ sent[1].status = 200
       /\ HasEmptyPipelines(sent[1].body)

\* the remote response omits the pipelines field
EmptyAccountListsNothingWitness ==
  /\ Served("mcp", "list_pipelines")
  /\ pc = "done"
  /\ settled[1].ok
  /\ settled[1].data = EmptyObj
  /\ result.kind = "resolved"
  /\ Payload.pipelines = <<>>

\* the entries of a remote list, none when the response omits the list
RemoteList(response, k) == IF k \in DOMAIN response THEN response[k] ELSE <<>>

\* C16: list_pipelines and list_pipeline_executions emit one entry per
\* remote entry, in the remote order: entry i of the output is the
\* projection of entry i of the remote response.
ListsKeepRemoteOrder ==
  /\ (Served("mcp", "list_pipelines") /\ pc = "done" /\ result.kind = "resolved") =>
       LET remoteList == RemoteList(settled[1].data, "pipelines")
       IN /\ Len(Payload.pipelines) = Len(remoteList)
          /\ \A i \in 1..Len(remoteList) :
               /\ Payload.pipelines[i] = PipelineSummaryView(remoteList[i])
               /\ Payload.pipelines[i].name = OrStr(Get(remoteList[i], "name"), "")
  /\ (Served("mcp", "list_pipeline_executions") /\ pc = "done" /\ result.kind = "resolved") =>
       LET remoteList == RemoteList(settled[1].data, "pipelineExecutionSummaries")
       IN /\ Len(Payload.executions) = Len(remoteList)
          /\ \A i \in 1..Len(remoteList) :
               /\ Payload.executions[i] = ExecutionView(remoteList[i])
               /\ Payload.executions[i].pipelineExecutionId =
                    OrStr(Get(remoteList[i], "pipelineExecutionId"), "")

\* two different executions, listed in the remote order
ListsKeepRemoteOrderWitness ==
  /\ Served("mcp", "list_pipeline_executions")
  /\ pc = "done"
  /\ result.kind = "resolved"
  /\ Len(Payload.executions) = 2
  /\ Payload.executions[1].pipelineExecutionId = "e2"
  /\ Payload.executions[2].pipelineExecutionId = "e1"

MetricsSucceeded ==
  Served("mcp", "get_pipeline_metrics") /\ pc = "done" /\ result.kind = "resolved"

\* C17: for every ISO-8601 string get_pipeline_metrics accepts as startTime
\* or endTime, the timeRange.startTime / timeRange.endTime of the output is
\* the same string as the input.
TimestampsRoundTrip ==
  MetricsSucceeded =>
    /\ "startTime" \in DOMAIN Input => Payload.timeRange.startTime = Input.startTime
    /\ "endTime" \in DOMAIN Input => Payload.timeRange.endTime = Input.endTime

\* the output denotes the instant of the input and is written the way
\* toISOString writes it, so an input written that way comes back unchanged
TimestampsKeepInstant ==
  MetricsSucceeded =>
    /\ "startTime" \in DOMAIN Input =>
         /\ Payload.timeRange.startTime.ms = Input.startTime.ms
         /\ Payload.timeRange.startTime.form = "YYYY-MM-DDTHH:mm:ss.sssZ"
    /\ "endTime" \in DOMAIN Input =>
         /\ Payload.timeRange.endTime.ms = Input.endTime.ms
         /\ Payload.timeRange.endTime.form = "YYYY-MM-DDTHH:mm:ss.sssZ"

\* an endTime written without milliseconds comes back with them
TimestampRewritten ==
  /\ MetricsSucceeded
  /\ "endTime" \in DOMAIN Input
  /\ Input.endTime.form = "YYYY-MM-DDTHH:mm:ssZ"
  /\ Payload.timeRange.endTime.ms = Input.endTime.ms
  /\ Payload.timeRange.endTime # Input.endTime

RECURSIVE SampledIds(_, _)
\* the ids of the executions the metrics loop samples (started and
\* succeeded), in list order, from entry i on
SampledIds(executions, i) ==
  IF i > Len(executions) THEN <<>>
  ELSE (IF "startTime" \in DOMAIN executions[i] /\ Get(executions[i], "status") = "Succeeded"
        THEN <<OrStr(Get(executions[i], "pipelineExecutionId"), "")>> ELSE <<>>)
       \o SampledIds(executions, i + 1)

MetricNames == <<"SucceededPipeline", "FailedPipeline", "PipelineExecutionTime">>

\* call k of a get_pipeline_metrics invocation is the one the order prescribes
MetricsCallInOrder(k, ids) ==
  CASE k <= 3 -> /\ calls[k].api = "getMetricStatistics"
                 /\ calls[k].params.MetricName = MetricNames[k]
    [] k = 4 -> calls[k].api = "listPipelineExecutions"
    [] OTHER -> /\ k <= 4 + 2 * Len(ids)
                /\ IF (k - 4) % 2 = 1
                   THEN /\ calls[k].api = "getPipelineExecution"
                        /\ calls[k].params.pipelineExecutionId = ids[(k - 3) \div 2]
                   ELSE calls[k].api = "getPipelineState"

\* C18: an invocation has at most one remote call outstanding, the last
\* one it issued; get_pipeline_metrics issues its calls in the order
\* success count, failure count, execution time, listPipelineExecutions and
\* then, for each sampled execution in list order, getPipelineExecution
\* followed by getPipelineState, and a successful invocation has issued all
\* of them.
CallsAreSequential ==
  /\ \A i \in 1..Len(calls) : calls[i].status = "pending" => (i = Len(calls) /\ pc # "done")
  /\ pc \notin {"idle", "done"} => (calls # <<>> /\ calls[Len(calls)].status = "pending")
  /\ Served("mcp", "get_pipeline_metrics") =>
       LET ids == IF "executions" \in DOMAIN local THEN SampledIds(local.executions, 1) ELSE <<>>
       IN /\ \A k \in 1..Len(calls) : MetricsCallInOrder(k, ids)
          /\ (pc = "done" /\ result.kind = "resolved") => Len(calls) = 4 + 2 * Len(ids)

\* two sampled executions, examined in list order
CallsAreSequentialWitness ==
  /\ MetricsSucceeded
  /\ Len(calls) = 8
  /\ Len(local.executions) = 2
  /\ calls[5].api = "getPipelineExecution"
  /\ calls[6].api = "getPipelineState"
  /\ calls[7].api = "getPipelineExecution"
  /\ calls[8].api = "getPipelineState"
  /\ calls[5].params.pipelineExecutionId = "e3"
  /\ calls[7].params.pipelineExecutionId = "e1"

\* C19: invocations share no mutable state in the process.  However the
\* awaits of several invocations interleave, each one has issued the calls
\* and reached the result it reaches when it runs alone and its calls settle
\* the same way, and the manager is still as its constructor left it.
RECURSIVE Alone(_, _, _)
Alone(params, outs, n) ==
  IF n = 0 THEN Started(params, NewManager)
  ELSE Continued(Alone(params, outs, n - 1), params, NewManager, outs[n])

AdvertisedNames(listed) == { listed.tools[k].name : k \in DOMAIN listed.tools }

Forwards(name) ==
  LET step == CallToolSwitch(name, EmptyObj)
  IN ~(step.t = "throw" /\ step.error.name = "McpError" /\ step.error.code = "InvalidRequest")

KnownNames == ToolNames \cup UnknownNames \cup HandleToolNames

TurnedAway ==
  /\ RejectedWithMcpError
  /\ result.error.code = "InvalidRequest"
  /\ Contains(result.error.message, <<"Unknown tool: ", request.name>>)

RegistryConsistent ==
  /\ (entry = "list" /\ pc = "done") =>
       /\ result.kind = "resolved"
       /\ Len(result.value.tools) = 12
       /\ \A j, k \in DOMAIN result.value.tools :
            result.value.tools[j].name = result.value.tools[k].name => j = k
       /\ AdvertisedNames(result.value) = ToolNames
       /\ \A n \in KnownNames : n \in AdvertisedNames(result.value) <=> Forwards(n)
  /\ Ended("mcp") => (request.name \in AdvertisedNames(ListToolsResult) <=> ~TurnedAway)

RegistryConsistentWitness ==
  /\ entry = "list"
  /\ pc = "done"
  /\ Len(result.value.tools) = 12
  /\ result.value.tools[12].name = "get_pipeline_metrics"
  /\ Forwards("get_pipeline_metrics")
  /\ ~Forwards("listPipelines")

\* the number of calls of the api the invocation issued
CallCount(api) == Cardinality({ k \in DOMAIN calls : calls[k].api = api })

\* the executions the metrics handler was handed by listPipelineExecutions
Listed ==
  IF "executions" \in DOMAIN local THEN local.executions
  ELSE IF /\ calls # <<>>
          /\ calls[Len(calls)].api = "listPipelineExecutions"
          /\ calls[Len(calls)].status = "ok"
          /\ "pipelineExecutionSummaries" \in DOMAIN settled[1].data
       THEN settled[1].data.pipelineExecutionSummaries
       ELSE <<>>

SucceededListed == { i \in DOMAIN Listed : Get(Listed[i], "status") = "Succeeded" }

StartedAndSucceededListed == { i \in SucceededListed : "startTime" \in DOMAIN Listed[i] }

\* C21: a get_pipeline_metrics invocation that succeeds has fetched the
\* pipeline state once for each listed execution whose status is Succeeded,
\* and for no other execution.
StateFetchedPerSucceeded ==
  MetricsSucceeded => CallCount("getPipelineState") = Cardinality(SucceededListed)

\* the state is fetched once for each listed execution that is Succeeded and
\* carries a startTime, and never for an execution of another status
StateFetchedPerStartedSucceeded ==
  /\ MetricsSucceeded => CallCount("getPipelineState") = Cardinality(StartedAndSucceededListed)
  /\ Served("mcp", "get_pipeline_metrics") =>
       CallCount("getPipelineState") <= Cardinality(StartedAndSucceededListed)

\* the listing holds a Succeeded execution without a startTime, and the
\* invocation succeeded without fetching any state
SucceededExecutionPassedOver ==
  /\ MetricsSucceeded
  /\ Len(Listed) = 1
  /\ Get(Listed[1], "status") = "Succeeded"
  /\ "startTime" \notin DOMAIN Listed[1]
  /\ CallCount("getPipelineState") = 0
  /\ CallCount("getPipelineExecution") = 0

\* the traced invocation ended with a success envelope
TracedSucceeded == pc[1] = "done" /\ result[1].kind = "resolved"

TracedPayload == result[1].value.content[1].text.json

\* the calls of the traced invocation that fetched a pipeline state
Snapshots == { k \in DOMAIN settled[1] : calls[1][k].api = "getPipelineState" /\ settled[1][k].ok }

StagesOf(response) == IF "stageStates" \in DOMAIN response THEN response.stageStates ELSE <<>>

\* the stages of the snapshot that the handler times
TimedStages(response) == { k \in DOMAIN StagesOf(response) : StageTimed(StagesOf(response)[k]) }

\* C22: stage timing reads the current snapshot on every iteration.  When
\* every state lookup of an invocation returned the same snapshot, the
\* reported stages are the timed stages of that snapshot, each with
\* executionCount equal to the number of sampled executions and with
\* averageDuration equal to the stage's one duration in the snapshot, whatever
\* the ids of the executions are.
SnapshotTimedEveryIteration ==
  (/\ TracedSucceeded
   /\ Snapshots # {}
   /\ \A j, k \in Snapshots : settled[1][j].data = settled[1][k].data) =>
    LET snapshot == settled[1][CHOOSE k \in Snapshots : TRUE].data
        sampled == Len(SampledIds(local[1].executions, 1))
        reported == TracedPayload.stagePerformance
    IN /\ Cardinality(Snapshots) = sampled
       /\ { reported[i].stageName : i \in DOMAIN reported }
            = { StagesOf(snapshot)[k].stageName : k \in TimedStages(snapshot) }
       /\ \A i \in DOMAIN reported :
            /\ reported[i].executionCount = sampled
            /\ \A k \in TimedStages(snapshot) :
                 StagesOf(snapshot)[k].stageName = reported[i].stageName =>
                   reported[i].averageDuration.num
                     = StageDuration(StagesOf(snapshot)[k]) * reported[i].averageDuration.den

\* two executions with different ids, the same snapshot both times: the
\* Source stage, which ran for e1, is counted twice with its 60 seconds
SnapshotTimedEveryIterationWitness ==
  /\ TracedSucceeded
  /\ Cardinality(Snapshots) = 2
  /\ \A j, k \in Snapshots : settled[1][j].data = settled[1][k].data
  /\ SampledIds(local[1].executions, 1) = <<"e1", "e3">>
  /\ Len(TracedPayload.stagePerformance) = 1
  /\ TracedPayload.stagePerformance[1].stageName = "Source"
  /\ TracedPayload.stagePerformance[1].executionCount = 2
  /\ TracedPayload.stagePerformance[1].averageDuration = [num |-> 120, den |-> 2]

\* the approval call carries the target of the request unchanged, with the
\* status the boolean asks for
ApprovalCarries(call, target) ==
  /\ call.api = "putApprovalResult"
  /\ \A k \in {"pipelineName", "stageName", "actionName", "token"} :
       Get(call.params, k) = Get(target, k)
  /\ StrictlyTrue(target, "approved") => call.params.result.status = "Approved"
  /\ ("approved" \in DOMAIN target /\ target.approved = [boolean |-> FALSE]) =>
       call.params.result.status = "Rejected"

SaysSuccessfully(message) == Contains(message, <<" successfully">>)

\* C23: approve_action issues exactly one putApprovalResult call, carrying
\* pipeline, stage, action and token as given, with status Approved for
\* approved = true and Rejected for approved = false.  When the remote call
\* fails the invocation ends with an error that carries the remote error
\* text, never with the success message; the REST handler likewise issues the
\* one call and sends no success message after a failure.
ApprovalOnceAndFailureSurfaced ==
  /\ Served("mcp", "approve_action") =>
       /\ Len(calls) = 1
       /\ ApprovalCarries(calls[1], Input)
       /\ pc = "done" =>
            IF calls[1].status = "failed"
            THEN /\ RejectedWithMcpError
                 /\ Contains(result.error.message, ErrToString(settled[1].error))
            ELSE /\ result.kind = "resolved"
                 /\ SaysSuccessfully(Payload.message)
  /\ (entry = "rest" /\ request.handler = "approveAction") =>
       /\ Len(calls) <= 1
       /\ calls # <<>> => ApprovalCarries(calls[1], request.req.body)
       /\ (calls # <<>> /\ calls[1].status = "failed") =>
            \A i \in DOMAIN sent : sent[i].status # 200 /\ "message" \notin DOMAIN sent[i].body

\* a rejection the remote refused: one call with status Rejected, failed
\* with a message, and the invocation rejected with that message
ApprovalOnceAndFailureSurfacedWitness ==
  /\ Served("mcp", "approve_action")
  /\ pc = "done"
  /\ Len(calls) = 1
  /\ calls[1].params.result.status = "Rejected"
  /\ Get(calls[1].params, "token") = "tok"
  /\ calls[1].status = "failed"
  /\ settled[1].error.message = <<"Rate exceeded">>
  /\ Contains(result.error.message, <<"Rate exceeded">>)

\* the remote operation each tool calls first
FirstApi(name) ==
  CASE name = "list_pipelines" -> "listPipelines"
    [] name = "get_pipeline_state" -> "getPipelineState"
    [] name = "list_pipeline_executions" -> "listPipelineExecutions"
    [] name = "approve_action" -> "putApprovalResult"
    [] name = "retry_stage" -> "retryStageExecution"
    [] name = "trigger_pipeline" -> "startPipelineExecution"
    [] name = "get_pipeline_execution_logs" -> "getPipelineExecution"
    [] name = "stop_pipeline_execution" -> "stopPipelineExecution"
    [] name \in {"get_pipeline_details", "tag_pipeline_resource"} -> "getPipeline"
    [] name = "create_pipeline_webhook" -> "putWebhook"
    [] OTHER -> "getMetricStatistics"

\* the pipeline name the tool's first call carries
PipelineNameSent(name, params) ==
  CASE name \in {"get_pipeline_state", "trigger_pipeline", "get_pipeline_details", "tag_pipeline_resource"} ->
         Get(params, "name")
    [] name = "create_pipeline_webhook" -> Get(params.webhook, "targetPipeline")
    [] name = "get_pipeline_metrics" -> Get(params.Dimensions[1], "Value")
    [] OTHER -> Get(params, "pipelineName")

\* C24: the dispatcher validates no argument.  For every registered tool an
\* invocation is forwarded whatever its argument bag holds: the tool's first
\* remote call is issued, carrying the pipeline name as given and nothing in
\* its place when the name is missing or there are no arguments at all, and
\* the invocation is never turned away before that call.
NoArgumentValidation ==
  (entry = "mcp" /\ pc # "idle" /\ request.name \in ToolNames) =>
    /\ calls # <<>>
    /\ calls[1].api = FirstApi(request.name)
    /\ request.name # "list_pipelines" =>
         PipelineNameSent(request.name, calls[1].params) = Get(Input, "pipelineName")
    /\ ~TurnedAway

\* get_pipeline_state invoked without arguments: getPipelineState is called
\* with no name
NoArgumentValidationWitness ==
  /\ Served("mcp", "get_pipeline_state")
  /\ "arguments" \notin DOMAIN request
  /\ Len(calls) = 1
  /\ calls[1].api = "getPipelineState"
  /\ "name" \notin DOMAIN calls[1].params
  /\ calls[1].status = "pending"

\* the outcome word of the message is the one that goes with the status
WordAgrees(message, status) ==
  /\ Contains(message, <<"approved">>) <=> status = "Approved"
  /\ Contains(message, <<"rejected">>) <=> status = "Rejected"

\* the approval went through and the REST handler answered 200
RestApprovalSent ==
  /\ entry = "rest"
  /\ request.handler = "approveAction"
  /\ pc = "done"
  /\ sent # <<>>
  /\ sent[1].status = 200

McpApprovalSent == Served("mcp", "approve_action") /\ pc = "done" /\ result.kind = "resolved"

\* C25: for approve/reject the outcome word of the success message agrees
\* with the status sent to the remote service, for every value of the
\* approved argument, in the MCP tool and in the REST controller alike.
MessageAgreesWithStatus ==
  /\ McpApprovalSent => WordAgrees(Payload.message, calls[1].params.result.status)
  /\ RestApprovalSent => WordAgrees(sent[1].body.message, calls[1].params.result.status)

\* the word agrees in the MCP tool always, and in the REST controller when
\* approved is a boolean or missing
MessageAgreesForBooleans ==
  /\ McpApprovalSent => WordAgrees(Payload.message, calls[1].params.result.status)
  /\ (RestApprovalSent /\ ("approved" \in DOMAIN request.req.body => "boolean" \in DOMAIN request.req.body.approved)) =>
       WordAgrees(sent[1].body.message, calls[1].params.result.status)

\* a REST approval whose approved is a non-empty string: Rejected is
\* recorded, the message says approved
RejectedButSaysApproved ==
  /\ RestApprovalSent
  /\ "string" \in DOMAIN request.req.body.approved
  /\ calls[1].params.result.status = "Rejected"
  /\ sent[1].body.message = <<"Action ", "approved", " successfully">>

\* the execution-time series the metrics handler was handed
TimeSeriesSeen == Member(local, "executionTimeMetric")

TimePoints == IF "Datapoints" \in DOMAIN TimeSeriesSeen THEN TimeSeriesSeen.Datapoints ELSE <<>>

\* C26: get_pipeline_metrics reports executionTime.average, minimum and
\* maximum as finite numbers; minimum and maximum are the extremes of the
\* per-bucket minima and maxima, and all three are 0 when the series has no
\* datapoints, whether the list is absent or empty.
ExecutionTimeFinite ==
  MetricsSucceeded =>
    /\ Payload.executionTime.minimum.finite
    /\ Payload.executionTime.maximum.finite
    /\ Payload.executionTime.average.den > 0
    /\ TimePoints = <<>> =>
         /\ Payload.executionTime.minimum = Finite(0)
         /\ Payload.executionTime.maximum = Finite(0)
         /\ Payload.executionTime.average.num = 0

\* the three are finite, and the extremes of the buckets, when the series
\* has datapoints; they are 0 when it has no Datapoints member; the average
\* is 0 whenever there are no datapoints
ExecutionTimeFiniteWithPoints ==
  MetricsSucceeded =>
    /\ Payload.executionTime.average.den > 0
    /\ TimePoints = <<>> => Payload.executionTime.average.num = 0
    /\ "Datapoints" \notin DOMAIN TimeSeriesSeen =>
         /\ Payload.executionTime.minimum = Finite(0)
         /\ Payload.executionTime.maximum = Finite(0)
    /\ TimePoints # <<>> =>
         /\ Payload.executionTime.minimum = Finite(MinOfSet(StatValues(TimePoints, "Minimum")))
         /\ Payload.executionTime.maximum = Finite(MaxOfSet(StatValues(TimePoints, "Maximum")))

\* the series came with an empty Datapoints list: the minimum is Infinity and
\* the maximum -Infinity
EmptySeriesInfinite ==
  /\ MetricsSucceeded
  /\ "Datapoints" \in DOMAIN TimeSeriesSeen
  /\ TimeSeriesSeen.Datapoints = <<>>
  /\ Payload.executionTime.minimum = PosInfinity
  /\ Payload.executionTime.maximum = NegInfinity
  /\ Payload.executionTime.average.num = 0

\* the stage's latest execution succeeded and one of its actions carries a
\* lastStatusChange timestamp
SucceededWithTimestamp(stage) ==
  /\ "latestExecution" \in DOMAIN stage
  /\ "status" \in DOMAIN stage.latestExecution
  /\ stage.latestExecution.status = "Succeeded"
  /\ "actionStates" \in DOMAIN stage
  /\ \E a \in DOMAIN stage.actionStates :
       /\ "latestExecution" \in DOMAIN stage.actionStates[a]
       /\ "lastStatusChange" \in DOMAIN stage.actionStates[a].latestExecution

\* one of the snapshots the invocation fetched holds such a stage of that name
SeenTimed(stageName) ==
  \E k \in Snapshots : \E s \in DOMAIN StagesOf(settled[1][k].data) :
    /\ Get(StagesOf(settled[1][k].data)[s], "stageName") = stageName
    /\ SucceededWithTimestamp(StagesOf(settled[1][k].data)[s])

\* C27: in every get_pipeline_metrics result each stagePerformance entry has
\* executionCount >= 1 and averageDuration >= 0, no two entries have the same
\* stage name, and a stage is listed only if a fetched snapshot had it with
\* latest-execution status Succeeded and an action carrying a lastStatusChange.
StagePerformanceSound ==
  TracedSucceeded =>
    LET reported == TracedPayload.stagePerformance
    IN \A i \in DOMAIN reported :
         /\ reported[i].executionCount >= 1
         /\ reported[i].executionCount <= Cardinality(Snapshots)
         /\ reported[i].averageDuration.num >= 0
         /\ reported[i].averageDuration.den > 0
         /\ \A j \in DOMAIN reported : reported[j].stageName = reported[i].stageName => j = i
         /\ SeenTimed(reported[i].stageName)

\* two snapshots, both with the Source stage timed and one with a bare
\* Deploy stage: Source is listed once with count 2, Deploy is not listed
StagePerformanceSoundWitness ==
  /\ TracedSucceeded
  /\ Cardinality(Snapshots) = 2
  /\ \E j, k \in Snapshots : settled[1][j].data # settled[1][k].data
  /\ \E k \in Snapshots : \E s \in DOMAIN StagesOf(settled[1][k].data) :
       Get(StagesOf(settled[1][k].data)[s], "stageName") = "Deploy"
  /\ Len(TracedPayload.stagePerformance) = 1
  /\ TracedPayload.stagePerformance[1].stageName = "Source"
  /\ TracedPayload.stagePerformance[1].executionCount = 2

\* the end of the window: the endTime of the input, the current time without
EffectiveEnd == IF "endTime" \in DOMAIN Input THEN Input.endTime.ms ELSE Now

RestRequired(handler) ==
  CASE handler = "listPipelines" -> {}
    [] handler \in {"getPipelineState", "listPipelineExecutions"} -> { <<"params", "pipelineName">> }
    [] handler = "approveAction" ->
         { <<"body", "pipelineName">>, <<"body", "stageName">>, <<"body", "actionName">>, <<"body", "token">> }
    [] handler = "retryStage" ->
         { <<"body", "pipelineName">>, <<"body", "stageName">>, <<"body", "pipelineExecutionId">> }
    [] handler = "triggerPipeline" -> { <<"body", "pipelineName">> }
    [] OTHER -> { <<"params", "pipelineName">>, <<"params", "executionId">> }

RestMissing ==
  \E f \in RestRequired(request.handler) :
    LET v == Get(request.req[f[1]], f[2]) IN v = Undef \/ v = ""

\* the message each REST handler answers a failure with
GenericMessage(handler) ==
  CASE handler = "listPipelines" -> "Failed to list pipelines"
    [] handler = "getPipelineState" -> "Failed to get pipeline state"
    [] handler = "listPipelineExecutions" -> "Failed to list pipeline executions"
    [] handler = "approveAction" -> "Failed to process approval"
    [] handler = "retryStage" -> "Failed to retry stage"
    [] handler = "triggerPipeline" -> "Failed to trigger pipeline"
    [] handler = "getPipelineExecutionLogs" -> "Failed to get pipeline execution logs"
    [] OTHER -> "Failed to stop pipeline execution"

\* C29: every REST handler, called through its route, sends exactly one
\* response per request, with status 200, 400 or 500.  A request that lacks
\* a required parameter is answered 400 without any remote call; a remote
\* failure is answered 500 with the handler's fixed message.
OneResponsePerRequest ==
  entry = "rest" =>
    /\ Len(sent) <= 1
    /\ Len(calls) <= 1
    /\ pc # "done" => sent = <<>>
    /\ pc = "done" =>
         /\ Len(sent) = 1
         /\ sent[1].status \in {200, 400, 500}
         /\ result.kind = "resolved"
    /\ RestMissing =>
         /\ calls = <<>>
         /\ sent = <<[status |-> 400, body |-> sent[1].body]>>
         /\ DOMAIN sent[1].body = {"error"}
    /\ ~RestMissing => calls # <<>>
    /\ (calls # <<>> /\ calls[1].status = "failed") =>
         sent = <<[status |-> 500, body |-> [error |-> GenericMessage(request.handler)]]>>
    /\ (calls # <<>> /\ calls[1].status = "ok") => sent[1].status = 200

\* a stop request the remote service refused
OneResponsePerRequestWitness ==
  /\ entry = "rest"
  /\ request.handler = "stopPipelineExecution"
  /\ pc = "done"
  /\ Len(calls) = 1
  /\ calls[1].status = "failed"
  /\ sent = <<[status |-> 500, body |-> [error |-> "Failed to stop pipeline execution"]]>>

\* every remote call the invocation issued succeeded, and there was one
RemoteSucceeded == calls # <<>> /\ \A k \in DOMAIN calls : calls[k].status = "ok"

\* C30: for each of its 8 known tool names handleTool returns a result with
\* status 'success' whenever the underlying remote call succeeds, a result
\* with status 'error' only when the remote call or the controller fails, and
\* it never rejects.
HandleToolSucceedsWithRemote ==
  (Ended("tool") /\ request.name \in HandleToolNames) =>
    /\ result.kind = "resolved"
    /\ result.value.status \in {"success", "error"}
    /\ RemoteSucceeded => result.value.status = "success"

\* handleTool never rejects, and under a known name it always returns an
\* error result, also when the remote call succeeded
HandleToolAlwaysError ==
  Ended("tool") =>
    /\ result.kind = "resolved"
    /\ result.value.status = "error"
    /\ request.name \in HandleToolNames => result.value.error.code = "INTERNAL_SERVER_ERROR"

\* listPipelines: the remote listing succeeded and the result is an error
RemoteSucceededButError ==
  /\ Ended("tool")
  /\ request.name = "listPipelines"
  /\ Len(calls) = 1
  /\ calls[1].api = "listPipelines"
  /\ calls[1].status = "ok"
  /\ result.kind = "resolved"
  /\ result.value.status = "error"
  /\ result.value.error.code = "INTERNAL_SERVER_ERROR"

====
